---- MODULE Spec2Model ----
(***************************************************************************)
(* AlgoFOMO (nikitacometa/web-ai-chat): the round / bet / momentum / timer *)
(* state machine of the game backend, together with the web client code    *)
(* that drives it (lib/api.ts, the admin page, MomentumBar).               *)
(*                                                                         *)
(* The backend's Python sources are not part of src/; the backend is       *)
(* modelled from the code listings and the descriptions of the backend     *)
(* plan (src/unnamed/part_001, src/unnamed/part_002), the changelog and    *)
(* the task list.  The client is modelled from its TypeScript sources.     *)
(*                                                                         *)
(* Numbers.  momentum is an integer 0..100.  A bet's impact is a float in  *)
(* the code; here it is a fixed-point number counted in 1/SCALE.           *)
(* Time is an integer clock `now`; deadlines are clock values.             *)
(* Optional values (null / a missing JSON field) are sequences of length   *)
(* 0 or 1.                                                                 *)
(***************************************************************************)
EXTENDS Integers, Sequences, FiniteSets, TLC

VARIABLES
    now,      \* the wall clock read by the backend
    rounds,   \* table `rounds`: a sequence, the id of a round is its index
    bets,     \* table `bets`: a sequence, in insertion order
    cron_ran, \* whether the last step was a run of cron_end_round
    resp,     \* the response to the last HTTP request, where it is observed
    reqs,     \* POST /admin/reset requests between their two database calls
    admin,    \* React state of the admin page (app/admin/page.tsx)
    drawer,   \* React state of the bet form (components/BetDrawer.tsx)
    wallet,   \* the Pera session and the React state of its two holders
    page,     \* React state of the betting interface (the game page)
    db,       \* the chat database (lib/db/queries.ts) and the calls in progress
    timer     \* the browser clock and the React state of TimerDisplay

vars == <<now, rounds, bets, cron_ran, resp, reqs, admin, drawer, wallet, page,
          db, timer>>

----------------------------------------------------------------------------
(* Bounds of the model *)

MaxRounds == 2      \* rounds ever created
MaxBets == 2        \* bets ever stored
MaxTime == 4        \* the clock stops here
NumClients == 2     \* admin clients whose POST /admin/reset may overlap
MaxEvents == 11     \* Realtime events the betting interface receives
MaxSubmissions == 2 \* clicks on the submit button of the bet form that reach onPlaceBet

(* Configuration (environment variables, src/unnamed/part_001:33-35).  The  *)
(* deployment values are 1200 s, 86400 s and 60 s; the model runs a small   *)
(* configuration with the same order BET_TIME_EXTENSION_SEC <              *)
(* ROUND_INACTIVITY_TIMEOUT_SEC < MAX_ROUND_DURATION_SEC, one clock unit    *)
(* being the cron period.                                                   *)
ROUND_INACTIVITY_TIMEOUT_SEC == 2
MAX_ROUND_DURATION_SEC == 3
BET_TIME_EXTENSION_SEC == 1

(* Program constants *)
SCALE == 100                 \* fixed-point unit of the float `impact`
MOMENTUM_MIN == 0
MOMENTUM_MAX == 100
DEFAULT_INITIAL_MOMENTUM == 50
MAX_IMPACT == 10
PROMPT_POWER_MIN == 5        \* 0.5, in tenths
PROMPT_POWER_MAX == 15       \* 1.5, in tenths
PROMPT_MAX_CHARS == 70

ADMIN_TOKEN == "verysecretadmintoken"

Max(a, b) == IF a >= b THEN a ELSE b
Min(a, b) == IF a <= b THEN a ELSE b

----------------------------------------------------------------------------
(* Inputs *)

Sides == {"left", "right"}
Tokens == {ADMIN_TOKEN, "wrong"}

(* Bet amounts are powers of ten, for which log10 is exact. *)
Amounts == {10, 1000000}
WordCounts == {20}
RandomFactors == {12}        \* a draw of random.uniform(0.8, 1.2), in tenths

(* Requests to POST /admin/reset as a client may send them: authorized     *)
(* ones with a valid or an out-of-range initial momentum, and ones with a   *)
(* field missing or with a missing or wrong bearer token.                   *)
ResetRequest(left, momentum, auth) ==
    [ left_avatar_url  |-> left,
      right_avatar_url |-> <<"r.png">>,
      initial_momentum |-> momentum,
      admin_token      |-> <<ADMIN_TOKEN>>,
      authorization    |-> auth ]

ResetRequests ==
    { ResetRequest(<<"l.png">>, m, <<ADMIN_TOKEN>>) :
          m \in {<<5>>, <<95>>, <<101>>} }

RejectedResetRequests ==
    { ResetRequest(<<>>, <<5>>, <<ADMIN_TOKEN>>) }
    \cup { ResetRequest(<<"l.png">>, <<5>>, a) : a \in {<<>>, <<"wrong">>} }

(* Bodies of POST /bet: the spell is given by its number of words and its   *)
(* number of characters.                                                    *)
BetRequests ==
    [ round_id : 1..MaxRounds, side : Sides, amount : Amounts,
      words : WordCounts, prompt_chars : {40} ]
    \cup [ round_id : {1}, side : {"up"}, amount : {10},
           words : WordCounts, prompt_chars : {40} ]

RejectedBetRequests ==
    [ round_id : {1}, side : {"left", "up"}, amount : {10},
      words : WordCounts, prompt_chars : {PROMPT_MAX_CHARS + 1} ]

----------------------------------------------------------------------------
(* Game logic *)

RECURSIVE Log10(_)
Log10(a) == IF a < 10 THEN 0 ELSE 1 + Log10(a \div 10)

(* calculate_bet_impact: min(log10(max(amount,1)) * prompt_power *          *)
(* random_factor, 10), floored at 0; prompt_power = words/10 clamped to     *)
(* [0.5, 1.5].  Result in 1/SCALE.                                          *)
calculate_bet_impact_uncapped(bet_amount, words, random_factor) ==
    LET log_bet_term == Log10(Max(bet_amount, 1))
        prompt_power == Max(PROMPT_POWER_MIN, Min(PROMPT_POWER_MAX, words))
    IN  Max(0, log_bet_term * prompt_power * random_factor)

calculate_bet_impact(bet_amount, words, random_factor) ==
    LET log_bet_term == Log10(Max(bet_amount, 1))
        prompt_power == Max(PROMPT_POWER_MIN, Min(PROMPT_POWER_MAX, words))
        calculated   == log_bet_term * prompt_power * random_factor
    IN  Max(0, Min(calculated, MAX_IMPACT * SCALE))

update_momentum_unclamped(current_momentum, impact, side) ==
    IF side = "left" THEN current_momentum - impact
                     ELSE current_momentum + impact

update_momentum_swapped(current_momentum, impact, side) ==
    LET new_momentum == IF side = "left" THEN current_momentum + impact
                                          ELSE current_momentum - impact
    IN  Max(MOMENTUM_MIN * SCALE, Min(MOMENTUM_MAX * SCALE, new_momentum))

(* update_momentum, on fixed-point values (1/SCALE). *)
update_momentum(current_momentum, impact, side) ==
    LET new_momentum == IF side = "left" THEN current_momentum - impact
                                          ELSE current_momentum + impact
    IN  Max(MOMENTUM_MIN * SCALE, Min(MOMENTUM_MAX * SCALE, new_momentum))

(* The column rounds.momentum is an integer: the float is stored rounded.   *)
(* The rounding mode is not fixed here: either neighbouring integer.        *)
StoredMomentum(x) == { x \div SCALE, (x + SCALE - 1) \div SCALE }

determine_winner_no_draw(final_momentum) ==
    IF final_momentum < 50 THEN "left" ELSE "right"

(* determine_winner(final_momentum) *)
determine_winner(final_momentum) ==
    IF final_momentum < 50 THEN "left"
    ELSE IF final_momentum > 50 THEN "right"
    ELSE "draw"

(* MomentumBar: the value the bar shows. *)
MomentumBar(momentum) ==
    LET clampedMomentum == Max(0, Min(100, momentum))
    IN  [ leftPercent |-> 100 - clampedMomentum, rightPercent |-> clampedMomentum ]

----------------------------------------------------------------------------
(* Database helpers (services/supabase_service.py) *)

ActiveRoundIds == { i \in DOMAIN rounds : rounds[i].active }

BetsOfRound(r) == { i \in DOMAIN bets : bets[i].round_id = r }

RECURSIVE SumAmounts(_)
SumAmounts(S) ==
    IF S = {} THEN 0
    ELSE LET i == CHOOSE j \in S : TRUE
         IN  bets[i].amount + SumAmounts(S \ {i})

deactivate_all_active_rounds_in_db(rs) ==
    [ i \in DOMAIN rs |-> [ rs[i] EXCEPT !.active = FALSE ] ]

create_round_in_db(rs, req, t) ==
    Append(rs,
        [ left_avatar_url  |-> req.left_avatar_url[1],
          right_avatar_url |-> req.right_avatar_url[1],
          momentum         |-> IF req.initial_momentum = <<>>
                               THEN DEFAULT_INITIAL_MOMENTUM
                               ELSE req.initial_momentum[1],
          pot_amount       |-> 0,
          start_time       |-> t,
          current_deadline |-> t + ROUND_INACTIVITY_TIMEOUT_SEC,
          max_deadline     |-> t + MAX_ROUND_DURATION_SEC,
          active           |-> TRUE,
          ended_at         |-> <<>>,
          winner           |-> "none",
          paid             |-> FALSE ])

----------------------------------------------------------------------------
(* POST /admin/reset *)

(* AdminResetRequest: the pydantic validation of the body. *)
AdminResetRequestValid(req) ==
    /\ Len(req.left_avatar_url) = 1
    /\ Len(req.right_avatar_url) = 1
    /\ Len(req.admin_token) = 1
    /\ \/ req.initial_momentum = <<>>
       \/ /\ req.initial_momentum[1] >= 0
          /\ req.initial_momentum[1] <= 100

verify_admin_token_body(req) == req.admin_token = <<ADMIN_TOKEN>>

(* Admin authentication: the bearer token of the Authorization header. *)
verify_admin_token(req) == req.authorization = <<ADMIN_TOKEN>>

AdminResetStatus(req) ==
    IF ~AdminResetRequestValid(req) THEN 422
    ELSE IF ~verify_admin_token(req) THEN 401
    ELSE 200

(* The whole handler, as one step: the rounds table after the request. *)
AdminResetHandler(req) ==
    IF AdminResetStatus(req) = 200
    THEN /\ Len(rounds) < MaxRounds
         /\ now + MAX_ROUND_DURATION_SEC <= MaxTime
         /\ rounds' = create_round_in_db(
                          deactivate_all_active_rounds_in_db(rounds), req, now)
    ELSE rounds' = rounds

ResetResponse(req) ==
    [ op |-> "reset", status |-> AdminResetStatus(req),
      authorization |-> req.authorization ]

AdminReset ==
    \E req \in ResetRequests :
        /\ AdminResetHandler(req)
        /\ cron_ran' = FALSE
        /\ UNCHANGED <<db, timer>>
        /\ UNCHANGED <<now, bets, resp, reqs, admin, drawer, wallet, page>>

(* The same handler, with the response observed. *)
AdminResetLogged ==
    \E req \in ResetRequests \cup RejectedResetRequests :
        /\ AdminResetHandler(req)
        /\ resp' = ResetResponse(req)
        /\ cron_ran' = FALSE
        /\ UNCHANGED <<db, timer>>
        /\ UNCHANGED <<now, bets, reqs, admin, drawer, wallet, page>>

(* A client that leaves initial_momentum out of the body. *)
AdminResetDefault ==
    /\ AdminResetHandler(ResetRequest(<<"l.png">>, <<>>, <<ADMIN_TOKEN>>))
    /\ cron_ran' = FALSE
    /\ UNCHANGED <<db, timer>>
    /\ UNCHANGED <<now, bets, resp, reqs, admin, drawer, wallet, page>>

(* The handler as its two database calls, which requests of several clients *)
(* may interleave: deactivate_all_active_rounds_in_db, then                 *)
(* create_round_in_db.                                                      *)
Clients == 1..NumClients

InFlight == { p \in Clients : reqs[p] # <<>> }

ResetDeactivate ==
    \E p \in Clients, req \in ResetRequests :
        /\ reqs[p] = <<>>
        /\ AdminResetStatus(req) = 200
        /\ Len(rounds) + Cardinality(InFlight) < MaxRounds
        /\ now + MAX_ROUND_DURATION_SEC <= MaxTime
        /\ rounds' = deactivate_all_active_rounds_in_db(rounds)
        /\ reqs' = [ reqs EXCEPT ![p] = <<req>> ]
        /\ cron_ran' = FALSE
        /\ UNCHANGED <<db, timer>>
        /\ UNCHANGED <<now, bets, resp, admin, drawer, wallet, page>>

ResetCreate ==
    \E p \in Clients :
        /\ reqs[p] # <<>>
        /\ rounds' = create_round_in_db(rounds, reqs[p][1], now)
        /\ reqs' = [ reqs EXCEPT ![p] = <<>> ]
        /\ cron_ran' = FALSE
        /\ UNCHANGED <<db, timer>>
        /\ UNCHANGED <<now, bets, resp, admin, drawer, wallet, page>>

----------------------------------------------------------------------------
(* POST /bet *)

(* BetRequest validation: the side is one of the two allowed values. *)
BetRequestValid_side_only(req) == req.side \in Sides

BetRequestValid(req) ==
    /\ req.side \in Sides
    /\ req.prompt_chars <= PROMPT_MAX_CHARS

(* The message of the validator that raised. *)
BetMessage(req) ==
    IF req.side \notin Sides THEN "side must be one of the two sides"
    ELSE IF req.prompt_chars > PROMPT_MAX_CHARS
         THEN "prompt must be 70 characters or less"
    ELSE ""

BetStatus(req) ==
    IF ~BetRequestValid(req) THEN 422
    ELSE IF req.round_id \notin ActiveRoundIds THEN 404
    ELSE 200

(* create_bet_in_db: the stored row, with the impact computed for it. *)
create_bet_in_db(bs, req, impact) ==
    Append(bs, [ round_id  |-> req.round_id,
                 side      |-> req.side,
                 amount    |-> req.amount,
                 impact    |-> impact ])

extended_deadline_uncapped(round) ==
    round.current_deadline + BET_TIME_EXTENSION_SEC

extended_deadline_from_now(round) ==
    Min(now + ROUND_INACTIVITY_TIMEOUT_SEC, round.max_deadline)

(* The deadline after a bet: extended by BET_TIME_EXTENSION_SEC, capped. *)
extended_deadline(round) ==
    Min(round.current_deadline + BET_TIME_EXTENSION_SEC, round.max_deadline)

new_pot_amount_overwritten(round, bet_amount) == bet_amount

new_pot_amount(round, bet_amount) == round.pot_amount + bet_amount

(* update_round_after_bet_in_db: pot, momentum and deadline of the round;   *)
(* new_momentum is the stored (integer) value of the updated momentum.      *)
update_round_after_bet_in_db(round, bet_amount, new_momentum) ==
    [ round EXCEPT !.pot_amount       = new_pot_amount(round, bet_amount),
                   !.momentum         = new_momentum,
                   !.current_deadline = extended_deadline(round) ]

(* The whole handler, as one step: the bets and rounds tables afterwards;   *)
(* random_factors are the draws random.uniform may produce.                 *)
ProcessBet(req, random_factors) ==
    IF BetStatus(req) = 200
    THEN /\ Len(bets) < MaxBets
         /\ \E random_factor \in random_factors :
              LET round  == rounds[req.round_id]
                  impact == calculate_bet_impact(req.amount, req.words,
                                                 random_factor)
                  moved  == update_momentum(round.momentum * SCALE,
                                            impact, req.side)
              IN  \E new_momentum \in StoredMomentum(moved) :
                    /\ bets' = create_bet_in_db(bets, req, impact)
                    /\ rounds' = [ rounds EXCEPT ![req.round_id] =
                           update_round_after_bet_in_db(round, req.amount,
                                                        new_momentum) ]
    ELSE UNCHANGED <<rounds, bets>>

PlaceBetHandler(req) == ProcessBet(req, RandomFactors)

PlaceBet ==
    \E req \in BetRequests :
        /\ PlaceBetHandler(req)
        /\ cron_ran' = FALSE
        /\ UNCHANGED <<db, timer>>
        /\ UNCHANGED <<now, resp, reqs, admin, drawer, wallet, page>>

PlaceBetLogged ==
    \E req \in BetRequests \cup RejectedBetRequests :
        /\ PlaceBetHandler(req)
        /\ resp' = [ op |-> "bet", status |-> BetStatus(req),
                     authorization |-> <<>>, message |-> BetMessage(req),
                     request |-> req ]
        /\ cron_ran' = FALSE
        /\ UNCHANGED <<db, timer>>
        /\ UNCHANGED <<now, reqs, admin, drawer, wallet, page>>

(* Bets of amounts whose payout products stay within the integers. *)
PayableAmounts == {10, 1000}

PlaceBetPayable ==
    \E req \in [ round_id : 1..MaxRounds, side : Sides,
                 amount : PayableAmounts, words : WordCounts,
                 prompt_chars : {40} ] :
        /\ PlaceBetHandler(req)
        /\ cron_ran' = FALSE
        /\ UNCHANGED <<db, timer>>
        /\ UNCHANGED <<now, resp, reqs, admin, drawer, wallet, page>>

(* Bets over the range of amounts, spell lengths and random draws. *)
WideAmounts == {1, 10, 1000000}
WideWordCounts == {0, 4, 10, 20}
WideRandomFactors == {8, 10, 12}

PlaceBetWide ==
    \E req \in [ round_id : {1}, side : Sides, amount : WideAmounts,
                 words : WideWordCounts, prompt_chars : {40} ] :
        /\ ProcessBet(req, WideRandomFactors)
        /\ cron_ran' = FALSE
        /\ UNCHANGED <<db, timer>>
        /\ UNCHANGED <<now, resp, reqs, admin, drawer, wallet, page>>

----------------------------------------------------------------------------
(* cron_end_round (jobs/end_round_job.py), run by an external scheduler *)

should_end_round_no_inactivity(round, t) ==
    \/ round.momentum = MOMENTUM_MIN \/ round.momentum = MOMENTUM_MAX
    \/ t >= round.max_deadline

(* The three end conditions, checked in this order. *)
should_end_round(round, t) ==
    \/ round.momentum = MOMENTUM_MIN \/ round.momentum = MOMENTUM_MAX
    \/ t >= round.current_deadline
    \/ t >= round.max_deadline

end_round_in_db_keeps_active(round, winner_side, t) ==
    [ round EXCEPT !.ended_at = <<t>>, !.winner = winner_side ]

(* end_round_in_db *)
end_round_in_db(round, winner_side, t) ==
    [ round EXCEPT !.active = FALSE, !.ended_at = <<t>>, !.winner = winner_side ]

CronEndRound ==
    /\ IF ActiveRoundIds = {}
       THEN UNCHANGED rounds
       ELSE \E r \in ActiveRoundIds :        \* get_active_round_from_db
              IF should_end_round(rounds[r], now)
              THEN rounds' = [ rounds EXCEPT ![r] =
                       end_round_in_db(rounds[r],
                                       determine_winner(rounds[r].momentum), now) ]
              ELSE UNCHANGED rounds
    /\ cron_ran' = TRUE
    /\ UNCHANGED <<db, timer>>
    /\ UNCHANGED <<now, bets, resp, reqs, admin, drawer, wallet, page>>

(* payout.py: calculate_winners for an ended round that is not paid out, *)
(* on integer amounts; int() truncates.  pot * 0.9 is exact for the pots  *)
(* of the model, which are multiples of 10.                               *)
winning_side(round) ==
    IF round.momentum <= 0 THEN "left"
    ELSE IF round.momentum >= 100 THEN "right"
    ELSE IF round.momentum < 50 THEN "left" ELSE "right"

winner_pot_whole(pot) == pot

winner_pot(pot) == (pot * 9) \div 10

calculate_winners(r) ==
    LET round == rounds[r]
        winning_bets == { i \in BetsOfRound(r) :
                              bets[i].side = winning_side(round) }
        total_winning_amount == SumAmounts(winning_bets)
    IN  [ winners |-> [ i \in winning_bets |->
                          (bets[i].amount * winner_pot(round.pot_amount))
                              \div total_winning_amount ],
          admin   |-> round.pot_amount \div 10 ]

PayoutJob ==
    \E r \in DOMAIN rounds :
        /\ rounds[r].ended_at # <<>>
        /\ ~rounds[r].paid
        /\ resp' = [ op |-> "payout", status |-> 0, authorization |-> <<>>,
                     round_id |-> r, payouts |-> calculate_winners(r) ]
        /\ rounds' = [ rounds EXCEPT ![r].paid = TRUE ]
        /\ cron_ran' = FALSE
        /\ UNCHANGED <<db, timer>>
        /\ UNCHANGED <<now, bets, reqs, admin, drawer, wallet, page>>

(* The clock advances by one cron period. *)
Tick ==
    /\ now < MaxTime
    /\ now' = now + 1
    /\ cron_ran' = FALSE
    /\ UNCHANGED <<db, timer>>
    /\ UNCHANGED <<rounds, bets, resp, reqs, admin, drawer, wallet, page>>

----------------------------------------------------------------------------
(* The admin page (app/admin/page.tsx) and startNewRound (lib/api.ts) *)

(* A JSON body or a header set is a record; a field may be absent. *)
Field(r, k) == IF k \in DOMAIN r THEN <<r[k]>> ELSE <<>>

(* The request as the backend reads it: the body's fields by name, and the  *)
(* bearer token of the Authorization header.                                *)
ParseAdminResetRequest(http) ==
    [ left_avatar_url  |-> Field(http.body, "left_avatar_url"),
      right_avatar_url |-> Field(http.body, "right_avatar_url"),
      initial_momentum |-> Field(http.body, "initial_momentum"),
      admin_token      |-> Field(http.body, "admin_token"),
      authorization    |-> Field(http.headers, "Authorization") ]

Digits == <<"0", "1", "2", "3", "4", "5", "6", "7", "8", "9">>

IsDigit(c) == \E d \in DOMAIN Digits : Digits[d] = c

DigitValue(c) == (CHOOSE d \in DOMAIN Digits : Digits[d] = c) - 1

RECURSIVE ParseDigits(_, _)
ParseDigits(s, acc) ==
    IF s = <<>> \/ ~IsDigit(Head(s)) THEN acc
    ELSE ParseDigits(Tail(s), acc * 10 + DigitValue(Head(s)))

RECURSIVE SkipSpaces(_)
SkipSpaces(s) ==
    IF s # <<>> /\ Head(s) = " " THEN SkipSpaces(Tail(s)) ELSE s

(* Number.parseInt(text, 10) on a sequence of characters: leading blanks,   *)
(* an optional sign, then the leading digits; <<>> stands for NaN.          *)
ParseInt(text) ==
    LET t == SkipSpaces(text)
        signed == t # <<>> /\ Head(t) \in {"-", "+"}
        u == IF signed THEN Tail(t) ELSE t
    IN  IF u = <<>> \/ ~IsDigit(Head(u)) THEN <<>>
        ELSE IF signed /\ Head(t) = "-" THEN << 0 - ParseDigits(u, 0) >>
        ELSE << ParseDigits(u, 0) >>

(* startNewRound(leftHandle, rightHandle, adminToken): the request it sends. *)
(* A fourth argument passed by a caller is not a parameter of the function.  *)
startNewRound(leftHandle, rightHandle, adminToken) ==
    [ headers |-> [ ContentType |-> "application/json" ],
      body    |-> [ left_handle      |-> leftHandle,
                    right_handle     |-> rightHandle,
                    initial_momentum |-> DEFAULT_INITIAL_MOMENTUM,
                    admin_token      |-> adminToken ] ]

MomentumTexts ==
    { <<"6", "0">>, <<" ", "7", "x">>, <<"1", "0", "1">>, <<"-", "1">>, <<"x">> }

(* The admin fills in the form. *)
AdminPageInput ==
    /\ ~admin.isLoading
    /\ \E token \in Tokens, text \in MomentumTexts :
         admin' = [ admin EXCEPT !.leftAvatarUrl   = "l.png",
                                 !.rightAvatarUrl  = "r.png",
                                 !.adminToken      = token,
                                 !.initialMomentum = text ]
    /\ cron_ran' = FALSE
    /\ UNCHANGED <<db, timer>>
    /\ UNCHANGED <<now, rounds, bets, resp, reqs, drawer, wallet, page>>

MomentumRejected_above_only(momentum) ==
    momentum # <<>> /\ momentum[1] > 100

(* Number.isNaN(momentum) || momentum < 0 || momentum > 100 *)
MomentumRejected(momentum) ==
    momentum = <<>> \/ momentum[1] < 0 \/ momentum[1] > 100

(* handleSubmit up to its await: an invalid momentum ends the handler, a    *)
(* valid one sends the request of startNewRound.                            *)
AdminPageSubmit ==
    /\ ~admin.isLoading
    /\ LET momentum == ParseInt(admin.initialMomentum)
       IN  IF MomentumRejected(momentum)
           THEN admin' = [ admin EXCEPT !.isLoading = FALSE,
                                        !.result    = "invalid" ]
           ELSE admin' = [ admin EXCEPT
                    !.isLoading = TRUE,
                    !.result    = "none",
                    !.pending   = << startNewRound(admin.leftAvatarUrl,
                                                   admin.rightAvatarUrl,
                                                   admin.adminToken) >> ]
    /\ cron_ran' = FALSE
    /\ UNCHANGED <<db, timer>>
    /\ UNCHANGED <<now, rounds, bets, resp, reqs, drawer, wallet, page>>

(* The backend handles the request and handleSubmit resumes: a response     *)
(* that is not ok is thrown and caught; finally isLoading is cleared.       *)
AdminPageResponse ==
    /\ admin.pending # <<>>
    /\ LET req == ParseAdminResetRequest(admin.pending[1])
       IN  /\ AdminResetHandler(req)
           /\ admin' = [ admin EXCEPT
                  !.pending   = <<>>,
                  !.isLoading = FALSE,
                  !.result    = IF AdminResetStatus(req) = 200
                                THEN "success" ELSE "failure" ]
    /\ cron_ran' = FALSE
    /\ UNCHANGED <<db, timer>>
    /\ UNCHANGED <<now, bets, resp, reqs, drawer, wallet, page>>

----------------------------------------------------------------------------
(* components/BetDrawer.tsx: the bet form.  Texts are sequences of          *)
(* characters; amounts are counted in hundredths of an ALGO.                *)

AMOUNT_SCALE == 100

(* minimumBet = 0.1, the prop the betting interface passes. *)
minimumBet == 10

MAX_SPELL_WORDS == 10

IsSpace(c) == c = " "

RECURSIVE TrimStart(_)
TrimStart(s) ==
    IF s # <<>> /\ IsSpace(Head(s)) THEN TrimStart(Tail(s)) ELSE s

RECURSIVE TrimEnd(_)
TrimEnd(s) ==
    IF s # <<>> /\ IsSpace(s[Len(s)])
    THEN TrimEnd(SubSeq(s, 1, Len(s) - 1)) ELSE s

(* String.prototype.trim *)
Trim(s) == TrimEnd(TrimStart(s))

(* text.split(/\s+/): the pieces between maximal runs of blanks; `piece` is *)
(* the piece being read.  The empty text splits into one empty piece.       *)
RECURSIVE SplitBlanks(_, _)
SplitBlanks(s, piece) ==
    IF s = <<>> THEN << piece >>
    ELSE IF IsSpace(Head(s))
         THEN << piece >> \o SplitBlanks(TrimStart(s), <<>>)
         ELSE SplitBlanks(Tail(s), Append(piece, Head(s)))

(* text.trim().split(/\s+/).filter(word => word.length > 0) *)
SpellWords(text) ==
    SelectSeq(SplitBlanks(Trim(text), <<>>), LAMBDA word : Len(word) > 0)

(* /^\d*\.?\d*$/.test(value) *)
AmountPattern(value) ==
    \E i \in 0..Len(value) :
        /\ \A k \in 1..i : IsDigit(value[k])
        /\ \/ \A k \in (i + 1)..Len(value) : IsDigit(value[k])
           \/ /\ i < Len(value)
              /\ value[i + 1] = "."
              /\ \A k \in (i + 2)..Len(value) : IsDigit(value[k])

RECURSIVE LeadingDigits(_)
LeadingDigits(s) ==
    IF s = <<>> \/ ~IsDigit(Head(s)) THEN <<>>
    ELSE << Head(s) >> \o LeadingDigits(Tail(s))

(* Number.parseFloat(text) for unsigned decimal texts, in hundredths: the   *)
(* leading digits, then a point and its digits; <<>> stands for NaN.  The   *)
(* value is cut after the second decimal, which keeps every comparison with *)
(* minimumBet exact.                                                        *)
ParseFloat(text) ==
    LET t == SkipSpaces(text)
        whole == LeadingDigits(t)
        rest == SubSeq(t, Len(whole) + 1, Len(t))
        decimals == IF rest # <<>> /\ Head(rest) = "."
                    THEN LeadingDigits(Tail(rest)) ELSE <<>>
        tenths == IF Len(decimals) >= 1 THEN DigitValue(decimals[1]) ELSE 0
        hundredths == IF Len(decimals) >= 2 THEN DigitValue(decimals[2]) ELSE 0
    IN  IF whole = <<>> /\ decimals = <<>> THEN <<>>
        ELSE << ParseDigits(whole, 0) * AMOUNT_SCALE + tenths * 10 + hundredths >>

(* The form as it is mounted.  onPlaceBet is whether the optional prop is  *)
(* passed; pending holds the betData of the calls of onPlaceBet that are    *)
(* awaited, calls counts these calls and settled tells how the last one     *)
(* ended.  renderedSubmitting is the isSubmitting of the last render, the   *)
(* value the button and the closure of handleSubmit see.                    *)
InitDrawerOf(onPlaceBet) ==
    [ selectedSide |-> "", spellText |-> <<>>,
      betAmount |-> <<"0", ".", "1">>, isSubmitting |-> FALSE,
      wordCount |-> 0, feedbackMessage |-> <<>>,
      onPlaceBet |-> onPlaceBet,
      pending |-> <<>>, calls |-> 0, settled |-> "none",
      renderedSubmitting |-> FALSE ]

(* The betting interface passes handleActualPlaceBet. *)
InitDrawer == InitDrawerOf(TRUE)

RECURSIVE Spell(_)
Spell(n) == IF n = 0 THEN <<>>
            ELSE IF n = 1 THEN <<"a">> ELSE <<"a", " ">> \o Spell(n - 1)

SpellTexts ==
    { <<>>, <<" ", " ">>, <<" ", "a", " ", " ", "b", " ">>,
      Spell(MAX_SPELL_WORDS), Spell(MAX_SPELL_WORDS + 1) }

AmountTexts ==
    { <<>>, <<".">>, <<"0", ".", "0", "5">>, <<"2", ".">>, <<"1", "e", "3">> }

(* RadioGroup onValueChange *)
DrawerSelectSide ==
    /\ \E side \in Sides :
         drawer' = [ drawer EXCEPT !.selectedSide = side ]
    /\ cron_ran' = FALSE
    /\ UNCHANGED <<db, timer>>
    /\ UNCHANGED <<now, rounds, bets, resp, reqs, admin, wallet, page>>

handleSpellChange ==
    /\ \E text \in SpellTexts :
         drawer' = [ drawer EXCEPT !.spellText = text,
                                   !.wordCount = Len(SpellWords(text)) ]
    /\ cron_ran' = FALSE
    /\ UNCHANGED <<db, timer>>
    /\ UNCHANGED <<now, rounds, bets, resp, reqs, admin, wallet, page>>

handleAmountChange ==
    /\ \E value \in AmountTexts :
         drawer' = [ drawer EXCEPT
                       !.betAmount = IF AmountPattern(value) THEN value ELSE @ ]
    /\ cron_ran' = FALSE
    /\ UNCHANGED <<db, timer>>
    /\ UNCHANGED <<now, rounds, bets, resp, reqs, admin, wallet, page>>

Feedback(type, message) == << [ type |-> type, message |-> message ] >>

AmountRejected_below_only(amountNumber) ==
    amountNumber # <<>> /\ amountNumber[1] < minimumBet

(* Number.isNaN(amountNumber) || amountNumber < minimumBet *)
AmountRejected(amountNumber) ==
    amountNumber = <<>> \/ amountNumber[1] < minimumBet

(* wordCount > 10 *)
SpellTooLong(wordCount) == wordCount > MAX_SPELL_WORDS

(* The betData handleSubmit builds; roundId and walletAddress are the props *)
(* the betting interface passes: round.id and activeAddress || ''.  The    *)
(* amount is the parsed number, << n >>, or <<>> for NaN.                   *)
BetData ==
    [ round_id |-> page.gameState.round.id,
      side |-> drawer.selectedSide,
      amount |-> ParseFloat(drawer.betAmount),
      spell |-> Trim(drawer.spellText),
      wallet_address |-> IF wallet.context.activeAddress = <<>> THEN ""
                         ELSE wallet.context.activeAddress[1] ]

(* handleSubmit up to its await, reading the state `seen` its closure       *)
(* holds: the early return, the two checks that set an error message, then  *)
(* the call of onPlaceBet with the betData.                                 *)
handleSubmit(seen) ==
    IF \/ seen.selectedSide = ""
       \/ Trim(seen.spellText) = <<>>
       \/ seen.isSubmitting
       \/ seen.betAmount = <<>>
    THEN drawer
    ELSE IF AmountRejected(ParseFloat(seen.betAmount))
    THEN [ drawer EXCEPT
             !.feedbackMessage = Feedback("error", "Amount must be at least 0.1.") ]
    ELSE IF SpellTooLong(seen.wordCount)
    THEN [ drawer EXCEPT
             !.feedbackMessage = Feedback("error", "Spell exceeds 10 words.") ]
    ELSE [ drawer EXCEPT
             !.isSubmitting = TRUE,
             !.feedbackMessage = <<>>,
             !.pending = IF drawer.onPlaceBet THEN Append(@, BetData) ELSE @,
             !.calls = IF drawer.onPlaceBet THEN @ + 1 ELSE @,
             !.settled = "none" ]

(* The component renders again: the button and the next closure of         *)
(* handleSubmit see the state d.                                            *)
Rendered(d) == [ d EXCEPT !.renderedSubmitting = d.isSubmitting ]

(* handleSubmit run on the state as rendered, and the render that follows. *)
DrawerSubmitted == Rendered(handleSubmit(drawer))

(* What onPlaceBet may throw: an Error whose message is plain text or the   *)
(* JSON of an API error with a detail, a string, or another value.          *)
ThrownErrors ==
    { [ kind |-> "Error", message |-> "Wallet not connected.", detail |-> <<>> ],
      [ kind |-> "Error", message |-> "{detail}", detail |-> <<"Round ended">> ],
      [ kind |-> "string", message |-> "declined", detail |-> <<>> ],
      [ kind |-> "other", message |-> "", detail |-> <<>> ] }

(* The message the catch block of handleSubmit shows. *)
ErrorMessage(error) ==
    IF error.kind = "Error"
    THEN IF error.detail # <<>> THEN error.detail[1] ELSE error.message
    ELSE IF error.kind = "string" THEN error.message
    ELSE "Failed to place bet. Please try again."

(* handleSubmit after its await, from the form state d: outcome <<>> is     *)
(* onPlaceBet resolved, <<error>> is onPlaceBet rejected; finally           *)
(* isSubmitting is cleared.                                                 *)
DrawerSettled(d, outcome) ==
    [ d EXCEPT
        !.feedbackMessage =
            IF outcome = <<>> THEN Feedback("success", "Bet placed successfully!")
            ELSE Feedback("error", ErrorMessage(outcome[1])),
        !.isSubmitting = FALSE,
        !.renderedSubmitting = FALSE,
        !.pending = IF @ = <<>> THEN <<>> ELSE Tail(@),
        !.settled = IF outcome = <<>> THEN "resolved" ELSE "rejected" ]

(* The disabled prop of the submit button; a comparison with NaN is false. *)
SubmitDisabled ==
    \/ drawer.selectedSide = ""
    \/ Trim(drawer.spellText) = <<>>
    \/ drawer.wordCount > MAX_SPELL_WORDS
    \/ drawer.renderedSubmitting
    \/ drawer.betAmount = <<>>
    \/ /\ ParseFloat(drawer.betAmount) # <<>>
       /\ ParseFloat(drawer.betAmount)[1] < minimumBet

(* A click on the submit button runs handleSubmit; onPlaceBet settles later. *)
DrawerSubmit ==
    /\ ~SubmitDisabled
    /\ drawer.calls < MaxSubmissions
    /\ drawer' = DrawerSubmitted
    /\ cron_ran' = FALSE
    /\ UNCHANGED <<db, timer>>
    /\ UNCHANGED <<now, rounds, bets, resp, reqs, admin, wallet, page>>

(* The promise of onPlaceBet settles and handleSubmit resumes; without a   *)
(* handler onPlaceBet?.(betData) is undefined and the await just goes on.   *)
DrawerSettle ==
    /\ drawer.isSubmitting \/ drawer.pending # <<>>
    /\ \E outcome \in {<<>>} \cup { <<e>> : e \in ThrownErrors } :
         /\ drawer.onPlaceBet \/ outcome = <<>>
         /\ drawer' = DrawerSettled(drawer, outcome)
    /\ cron_ran' = FALSE
    /\ UNCHANGED <<db, timer>>
    /\ UNCHANGED <<now, rounds, bets, resp, reqs, admin, wallet, page>>

(* A click on the submit button as it was last rendered: handleSubmit runs  *)
(* with the isSubmitting of that render, and its setState calls are not     *)
(* rendered yet.                                                            *)
DrawerClick ==
    /\ ~SubmitDisabled
    /\ drawer.calls < MaxSubmissions
    /\ drawer' = handleSubmit([ drawer EXCEPT
                                  !.isSubmitting = drawer.renderedSubmitting ])
    /\ cron_ran' = FALSE
    /\ UNCHANGED <<db, timer>>
    /\ UNCHANGED <<now, rounds, bets, resp, reqs, admin, wallet, page>>

(* React renders the state that handleSubmit set. *)
DrawerRender ==
    /\ drawer.renderedSubmitting # drawer.isSubmitting
    /\ drawer' = Rendered(drawer)
    /\ cron_ran' = FALSE
    /\ UNCHANGED <<db, timer>>
    /\ UNCHANGED <<now, rounds, bets, resp, reqs, admin, wallet, page>>

----------------------------------------------------------------------------
(* The Pera wallet.  `session` is the wallet session of the browser, <<>>   *)
(* or << address >>.  Two components hold a connection state: the header    *)
(* button ConnectWalletButton, with its own PeraWalletConnect instance and  *)
(* its own activeAddress, and PeraWalletProvider, whose activeAddress the   *)
(* betting interface reads through usePeraWallet.  null is <<>>.            *)

Addresses == {"ADDR_A"}

(* What peraWallet.connect() resolves to: the accounts of the session the   *)
(* user approves, or no account; or the promise is rejected.                *)
ConnectOutcomes ==
    { [ rejected |-> FALSE, accounts |-> << a >> ] : a \in Addresses }
    \cup { [ rejected |-> FALSE, accounts |-> <<>> ],
           [ rejected |-> TRUE, accounts |-> <<>> ] }

(* ConnectWalletButton.connectWallet *)
connectWallet ==
    /\ wallet.header.activeAddress = <<>>
    /\ \E outcome \in ConnectOutcomes :
         wallet' = [ wallet EXCEPT
             !.session = IF outcome.accounts = <<>> THEN @ ELSE outcome.accounts,
             !.header.activeAddress =
                 IF outcome.accounts = <<>> THEN <<>> ELSE outcome.accounts ]
    /\ cron_ran' = FALSE
    /\ UNCHANGED <<db, timer>>
    /\ UNCHANGED <<now, rounds, bets, resp, reqs, admin, drawer, page>>

(* ConnectWalletButton.disconnectWallet *)
disconnectWallet ==
    /\ wallet.header.activeAddress # <<>>
    /\ wallet' = [ wallet EXCEPT !.session = <<>>,
                                 !.header.activeAddress = <<>>,
                                 !.header.listening = FALSE ]
    /\ cron_ran' = FALSE
    /\ UNCHANGED <<db, timer>>
    /\ UNCHANGED <<now, rounds, bets, resp, reqs, admin, drawer, page>>

(* handlePeraConnect, from its call to the end of its await: the wallet    *)
(* state it leaves when peraWallet.connect() settled with `outcome`.        *)
PeraConnected(outcome) ==
    [ wallet EXCEPT
        !.session = IF outcome.accounts = <<>> THEN @ ELSE outcome.accounts,
        !.context.activeAddress =
            IF outcome.accounts = <<>> THEN @ ELSE outcome.accounts,
        !.context.listening =
            IF outcome.accounts = <<>> THEN @ ELSE TRUE,
        !.context.isPeraConnecting = FALSE ]

PeraDisconnected_keeps_address_on_throw(threw) ==
    [ wallet EXCEPT
        !.session = IF threw THEN @ ELSE <<>>,
        !.context.activeAddress = IF threw THEN @ ELSE <<>>,
        !.context.listening = IF threw THEN @ ELSE FALSE ]

(* handlePeraDisconnect: peraWallet.disconnect() ends the session or        *)
(* throws, which is caught; then setActiveAddress(null).                    *)
PeraDisconnected(threw) ==
    [ wallet EXCEPT
        !.session = IF threw THEN @ ELSE <<>>,
        !.context.activeAddress = <<>>,
        !.context.listening = IF threw THEN @ ELSE FALSE ]

(* usePeraWallet().handlePeraConnect *)
handlePeraConnect ==
    /\ wallet.context.peraWallet
    /\ \E outcome \in ConnectOutcomes : wallet' = PeraConnected(outcome)
    /\ cron_ran' = FALSE
    /\ UNCHANGED <<db, timer>>
    /\ UNCHANGED <<now, rounds, bets, resp, reqs, admin, drawer, page>>

(* usePeraWallet().handlePeraDisconnect *)
handlePeraDisconnect ==
    /\ wallet.context.peraWallet
    /\ wallet.context.activeAddress # <<>>
    /\ \E threw \in BOOLEAN : wallet' = PeraDisconnected(threw)
    /\ cron_ran' = FALSE
    /\ UNCHANGED <<db, timer>>
    /\ UNCHANGED <<now, rounds, bets, resp, reqs, admin, drawer, page>>

(* The wallet ends the session: every holder whose 'disconnect' listener is *)
(* attached clears its address.                                             *)
WalletDisconnects ==
    /\ wallet.session # <<>>
    /\ wallet' = [ wallet EXCEPT
           !.session = <<>>,
           !.header.activeAddress = IF wallet.header.listening THEN <<>> ELSE @,
           !.header.listening = FALSE,
           !.context.activeAddress = IF wallet.context.listening THEN <<>> ELSE @,
           !.context.listening = FALSE ]
    /\ cron_ran' = FALSE
    /\ UNCHANGED <<db, timer>>
    /\ UNCHANGED <<now, rounds, bets, resp, reqs, admin, drawer, page>>

----------------------------------------------------------------------------
(* The betting interface (BettingInterfaceClientWrapper): its gameState and *)
(* the Supabase Realtime handler for INSERTs into `bets`.                   *)

RECENT_BETS_DISPLAY_LIMIT == 10

(* seq.slice(0, n) *)
Slice(seq, n) == SubSeq(seq, 1, Min(n, Len(seq)))

updatedRecentBets_unsliced(newBet, recent_bets) == << newBet >> \o recent_bets

(* [newBet, ...prev.recent_bets].slice(0, RECENT_BETS_DISPLAY_LIMIT) *)
updatedRecentBets(newBet, recent_bets) ==
    Slice(<< newBet >> \o recent_bets, RECENT_BETS_DISPLAY_LIMIT)

(* The setGameState updater of the INSERT handler. *)
GameStateAfterBet(prev, newBet) ==
    [ prev EXCEPT
        !.recent_bets = updatedRecentBets(newBet, prev.recent_bets),
        !.total_bets_count = @ + 1,
        !.left_side_bets_amount =
            IF newBet.side = "left" THEN @ + newBet.amount ELSE @,
        !.right_side_bets_amount =
            IF newBet.side = "right" THEN @ + newBet.amount ELSE @ ]

(* Rows the database may insert into `bets`: the id is the row's number.    *)
InsertedBets(id) ==
    { [ id |-> id, side |-> side, amount |-> minimumBet ] :
        side \in Sides }

(* Realtime delivers the INSERT of a bet of the current round. *)
BetInserted ==
    /\ page.received < MaxEvents
    /\ \E newBet \in InsertedBets(page.received + 1) :
         page' = [ page EXCEPT
                     !.gameState = GameStateAfterBet(page.gameState, newBet),
                     !.received = @ + 1 ]
    /\ cron_ran' = FALSE
    /\ UNCHANGED <<db, timer>>
    /\ UNCHANGED <<now, rounds, bets, resp, reqs, admin, drawer, wallet>>

----------------------------------------------------------------------------
(* handleActualPlaceBet, the onPlaceBet of the bet form.  page.env is the   *)
(* value of NEXT_PUBLIC_GAME_TREASURY_ADDRESS (<<>> when unset), page.bet   *)
(* the call in progress, page.chain the responses of the Algorand node to   *)
(* submitted transactions and page.backendCalls the requests sent to        *)
(* POST /bet.                                                               *)

PLACEHOLDER == "PLACEHOLDER_TREASURY_ADDRESS_ALGONFOMO"

TreasuryEnvs == { <<>>, <<"">>, << PLACEHOLDER >>, <<"TREASURY_ADDR">> }

(* process.env.NEXT_PUBLIC_GAME_TREASURY_ADDRESS || PLACEHOLDER *)
GAME_TREASURY_ADDRESS(env) ==
    IF env = <<>> \/ env[1] = "" THEN PLACEHOLDER ELSE env[1]

(* !activeAddress || !peraWallet *)
WalletMissing ==
    wallet.context.activeAddress = <<>> \/ ~wallet.context.peraWallet

TreasuryMissing_unset_only(address) == address = ""

(* !GAME_TREASURY_ADDRESS || GAME_TREASURY_ADDRESS === PLACEHOLDER *)
TreasuryMissing(address) == address = "" \/ address = PLACEHOLDER

Error(message) == [ kind |-> "Error", message |-> message, detail |-> <<>> ]

(* The two checks that open handleActualPlaceBet: << error >> when one      *)
(* throws, <<>> when the call goes on.                                      *)
PlaceBetRefused ==
    IF WalletMissing THEN << Error("Wallet not connected.") >>
    ELSE IF TreasuryMissing(GAME_TREASURY_ADDRESS(page.env))
    THEN << Error("Game treasury address is not configured.") >>
    ELSE <<>>

IdleBet == [ stage |-> "idle" ]

(* Math.round(amount * 1_000_000), the amount given in hundredths *)
MicroAlgos(amount) == amount * (1000000 \div AMOUNT_SCALE)

(* A click on the submit button: handleSubmit, and inside its call of       *)
(* onPlaceBet the part of handleActualPlaceBet before its first await.  A   *)
(* throw there rejects the promise and handleSubmit goes on in its catch.   *)
PlaceBetClick ==
    /\ ~SubmitDisabled
    /\ drawer.calls < MaxSubmissions
    /\ LET submitted == DrawerSubmitted
       IN  IF submitted.calls = drawer.calls
           THEN drawer' = submitted /\ page' = page
           ELSE IF PlaceBetRefused # <<>>
           THEN /\ drawer' = DrawerSettled(submitted, PlaceBetRefused)
                /\ page' = page
           ELSE /\ drawer' = submitted
                /\ page' = [ page EXCEPT
                       !.isBetting = TRUE,
                       !.bet = [ stage |-> "params",
                                 data |-> submitted.pending[1],
                                 activeAddress |-> wallet.context.activeAddress[1],
                                 round_id |-> page.gameState.round.id ] ]
    /\ cron_ran' = FALSE
    /\ UNCHANGED <<db, timer>>
    /\ UNCHANGED <<now, rounds, bets, resp, reqs, admin, wallet>>

(* catch: rethrow; finally: setIsBetting(false); handleSubmit shows the     *)
(* error.                                                                   *)
PlaceBetFailed(p, message) ==
    /\ page' = [ p EXCEPT !.isBetting = FALSE, !.bet = IdleBet ]
    /\ drawer' = DrawerSettled(drawer, << Error(message) >>)

(* getTransactionParams() settles: the payment is built and handed to the   *)
(* wallet for signing.                                                      *)
ParamsReturned ==
    /\ page.bet.stage = "params"
    /\ \E ok \in BOOLEAN :
         IF ok
         THEN /\ page' = [ page EXCEPT !.bet =
                    [ stage |-> "sign", data |-> @.data,
                      activeAddress |-> @.activeAddress,
                      round_id |-> @.round_id,
                      txn |-> [ sender |-> @.activeAddress,
                                receiver |-> GAME_TREASURY_ADDRESS(page.env),
                                amount |-> MicroAlgos(@.data.amount[1]) ] ] ]
              /\ drawer' = drawer
         ELSE PlaceBetFailed(page, "Network request error.")
    /\ cron_ran' = FALSE
    /\ UNCHANGED <<db, timer>>
    /\ UNCHANGED <<now, rounds, bets, resp, reqs, admin, wallet>>

(* peraWallet.signTransaction settles: the signed payment is sent to the    *)
(* node.                                                                    *)
TransactionSigned ==
    /\ page.bet.stage = "sign"
    /\ \E ok \in BOOLEAN :
         IF ok
         THEN /\ page' = [ page EXCEPT !.bet =
                    [ stage |-> "submit", data |-> @.data,
                      activeAddress |-> @.activeAddress,
                      round_id |-> @.round_id, txn |-> @.txn ] ]
              /\ drawer' = drawer
         ELSE PlaceBetFailed(page, "Transaction signing was rejected.")
    /\ cron_ran' = FALSE
    /\ UNCHANGED <<db, timer>>
    /\ UNCHANGED <<now, rounds, bets, resp, reqs, admin, wallet>>

TxIds == {"TX1", "TX2"}

(* What sendRawTransaction(...).do() resolves to: a response with or        *)
(* without a txid. *)
SubmissionResponses == { [ txid |-> << id >> ] : id \in TxIds } \cup { [ txid |-> <<>> ] }

finalBetRequest_no_tx_id(bet, txId) ==
    [ round_id |-> bet.round_id, side |-> bet.data.side,
      amount |-> bet.data.amount, spell |-> bet.data.spell,
      wallet_address |-> bet.activeAddress, tx_id |-> "" ]

finalBetRequest(bet, txId) ==
    [ round_id |-> bet.round_id, side |-> bet.data.side,
      amount |-> bet.data.amount, spell |-> bet.data.spell,
      wallet_address |-> bet.activeAddress, tx_id |-> txId ]

(* sendRawTransaction settles: without a txid the handler throws, with one  *)
(* it calls placeBet(finalBetRequest).                                      *)
TransactionSubmitted ==
    /\ page.bet.stage = "submit"
    /\ \/ PlaceBetFailed(page, "Transaction was not accepted.")
       \/ \E response \in SubmissionResponses :
            LET sent == [ page EXCEPT !.chain = Append(@, response) ]
            IN  IF response.txid = <<>>
                THEN PlaceBetFailed(sent, "Transaction ID was not returned after submission (from .txid).")
                ELSE /\ page' = [ sent EXCEPT
                           !.backendCalls =
                               Append(@, finalBetRequest(page.bet, response.txid[1])),
                           !.bet = [ stage |-> "backend" ] ]
                     /\ drawer' = drawer
    /\ cron_ran' = FALSE
    /\ UNCHANGED <<db, timer>>
    /\ UNCHANGED <<now, rounds, bets, resp, reqs, admin, wallet>>

(* What placeBet resolves to; "thrown" is a response that is not ok. *)
BetResponses ==
    { [ success |-> TRUE, message |-> "ok",
        updated_round_state |-> << [ id |-> 1, momentum |-> 60, pot_amount |-> 10,
                                     current_deadline |-> 1 ] >> ],
      [ success |-> TRUE, message |-> "", updated_round_state |-> <<>> ],
      [ success |-> FALSE, message |-> "Round ended", updated_round_state |-> <<>> ],
      [ success |-> FALSE, message |-> "thrown", updated_round_state |-> <<>> ] }

(* placeBet settled with `response`, p being the page then: a success with *)
(* the round's new state replaces gameState.round, anything else is thrown. *)
(* page.recorded holds the tx_id of every bet the backend has recorded.     *)
BetResponded(p, response) ==
    LET q == [ p EXCEPT !.recorded =
                   IF response.success
                   THEN @ \cup { p.backendCalls[Len(p.backendCalls)].tx_id }
                   ELSE @ ]
    IN  IF response.success /\ response.updated_round_state # <<>>
        THEN /\ page' = [ q EXCEPT
                   !.gameState.round = response.updated_round_state[1],
                   !.isBetting = FALSE,
                   !.bet = IdleBet ]
             /\ drawer' = DrawerSettled(drawer, <<>>)
        ELSE PlaceBetFailed(q,
                 IF response.message # "" THEN response.message
                 ELSE "Bet processing failed after transaction submission.")

BackendResponded ==
    /\ page.bet.stage = "backend"
    /\ \E response \in BetResponses : BetResponded(page, response)
    /\ cron_ran' = FALSE
    /\ UNCHANGED <<db, timer>>
    /\ UNCHANGED <<now, rounds, bets, resp, reqs, admin, wallet>>

----------------------------------------------------------------------------
(* The page with the backend behind it: page.roundEvents are the UPDATE     *)
(* events of the round's row that Realtime has not delivered yet, in the    *)
(* order of the updates, page.betResponse the response of POST /bet on its  *)
(* way to the page.                                                         *)

(* The fields of a row of rounds that the page shows. *)
RoundView(id, round) ==
    [ id |-> id, momentum |-> round.momentum, pot_amount |-> round.pot_amount,
      current_deadline |-> round.current_deadline ]

(* The rounds table with the round the page was rendered for. *)
InitialRounds ==
    create_round_in_db(<<>>, ResetRequest(<<"l.png">>, <<>>, <<ADMIN_TOKEN>>), 0)

(* Realtime queues an UPDATE event when the row of round id changed. *)
Published(events, before, after, id) ==
    IF after[id] # before[id] THEN Append(events, RoundView(id, after[id]))
    ELSE events

(* The BetResponse of POST /bet; a status other than 200 makes placeBet     *)
(* throw.                                                                   *)
BetResponseOf(req, status, rs) ==
    IF status = 200
    THEN [ success |-> TRUE, message |-> "ok",
           updated_round_state |-> << RoundView(req.round_id, rs[req.round_id]) >> ]
    ELSE [ success |-> FALSE, message |-> "thrown", updated_round_state |-> <<>> ]

(* The backend handles the POST /bet of the page. *)
BackendProcessesBet ==
    /\ page.bet.stage = "backend"
    /\ page.betResponse = <<>>
    /\ LET call == page.backendCalls[Len(page.backendCalls)]
       IN  \E req \in BetRequests :
             /\ req.round_id = call.round_id
             /\ req.side = call.side
             /\ PlaceBetHandler(req)
             /\ page' = [ page EXCEPT
                    !.betResponse = << BetResponseOf(req, BetStatus(req), rounds') >>,
                    !.roundEvents = Published(@, rounds, rounds', req.round_id) ]
    /\ cron_ran' = FALSE
    /\ UNCHANGED <<db, timer>>
    /\ UNCHANGED <<now, resp, reqs, admin, drawer, wallet>>

(* The backend handles the POST /bet of another player. *)
OtherBetProcessed ==
    /\ \E req \in BetRequests :
         /\ BetStatus(req) = 200
         /\ PlaceBetHandler(req)
         /\ page' = [ page EXCEPT
                !.roundEvents = Published(@, rounds, rounds', req.round_id) ]
    /\ cron_ran' = FALSE
    /\ UNCHANGED <<db, timer>>
    /\ UNCHANGED <<now, resp, reqs, admin, drawer, wallet>>

(* Realtime delivers the next UPDATE of the round's row. *)
RoundUpdated ==
    /\ page.roundEvents # <<>>
    /\ LET updatedDbRound == Head(page.roundEvents)
           prev == page.gameState
       IN  page' = [ page EXCEPT
             !.roundEvents = Tail(@),
             !.gameState =
                 IF prev.round.id # updatedDbRound.id THEN prev
                 ELSE [ prev EXCEPT
                          !.round.momentum = updatedDbRound.momentum,
                          !.round.pot_amount = updatedDbRound.pot_amount,
                          !.round.current_deadline =
                              updatedDbRound.current_deadline ] ]
    /\ cron_ran' = FALSE
    /\ UNCHANGED <<db, timer>>
    /\ UNCHANGED <<now, rounds, bets, resp, reqs, admin, drawer, wallet>>

(* The response of POST /bet reaches the page. *)
BetResponseArrived ==
    /\ page.betResponse # <<>>
    /\ BetResponded([ page EXCEPT !.betResponse = <<>> ], page.betResponse[1])
    /\ cron_ran' = FALSE
    /\ UNCHANGED <<db, timer>>
    /\ UNCHANGED <<now, rounds, bets, resp, reqs, admin, wallet>>

----------------------------------------------------------------------------

(* The chat database behind lib/db/queries.ts.  db.chat holds the ids of   *)
(* the rows of table chat; db.message, db.vote and db.stream the rows of    *)
(* those tables, each with the chat_id it references; db.del the call of    *)
(* deleteChatById in progress.  Every query is one request to the database  *)
(* and is atomic; requests of different calls interleave.                   *)

ChatIds == {"c1", "c2"}
MessageIds == {"m1", "m2"}
StreamIds == {"s1"}
VoteTypes == {"up", "down"}

InitDb ==
    [ chat |-> ChatIds, message |-> {}, vote |-> {}, stream |-> {},
      del |-> [ pc |-> "idle", id |-> "none", interleaved |-> FALSE ] ]

(* The rows of a table that reference chat id. *)
RowsOfChat(rows, id) == { r \in rows : r.chat_id = id }

(* A row may only reference a chat that exists. *)
ForeignKeyViolated(d, rows) == \E r \in rows : r.chat_id \notin d.chat

(* The primary key of a new row is taken. *)
PrimaryKeyTaken(table, rows) == \E r \in rows : \E t \in table : t.id = r.id

(* Whether a request of another call on chat id falls inside a running      *)
(* deleteChatById of that chat.                                             *)
Interleaves(d, ids) ==
    d.del.pc \in {"votes", "streams", "chat"} /\ d.del.id \in ids

Noted(d, ids) ==
    IF Interleaves(d, ids) THEN [ d EXCEPT !.del.interleaved = TRUE ] ELSE d

(* Lists of messages a caller saves with one call. *)
MessageBatches ==
    { { [ id |-> m, chat_id |-> c ] } : m \in MessageIds, c \in ChatIds }
    \cup { { [ id |-> "m1", chat_id |-> c ], [ id |-> "m2", chat_id |-> c ] } :
             c \in ChatIds }

(* saveMessages: one insert of all the rows; an error leaves the table. *)
saveMessages ==
    /\ \E messagesToInsert \in MessageBatches :
         IF ForeignKeyViolated(db, messagesToInsert)
            \/ PrimaryKeyTaken(db.message, messagesToInsert)
         THEN db' = db
         ELSE db' = [ Noted(db, { r.chat_id : r \in messagesToInsert })
                        EXCEPT !.message = @ \cup messagesToInsert ]
    /\ cron_ran' = FALSE
    /\ UNCHANGED <<now, rounds, bets, resp, reqs, admin, drawer, wallet, page, timer>>

SameVote(a, b) == a.chat_id = b.chat_id /\ a.message_id = b.message_id

VoteUpserted_inserts_only(votes, chatId, messageId, type) ==
    votes \cup { [ chat_id |-> chatId, message_id |-> messageId,
                   is_upvoted |-> (type = "up") ] }

(* upsert(row, { onConflict: 'chat_id, message_id' }): the table afterwards *)
VoteUpserted(votes, chatId, messageId, type) ==
    LET row == [ chat_id |-> chatId, message_id |-> messageId,
                 is_upvoted |-> (type = "up") ]
    IN  { v \in votes : ~SameVote(v, row) } \cup { row }

(* The table vote after voteMessage, whether the request succeeded or not. *)
VotesAfter(d, chatId, messageId, type) ==
    IF chatId \notin d.chat THEN d.vote
    ELSE VoteUpserted(d.vote, chatId, messageId, type)

voteMessage ==
    /\ \E chatId \in ChatIds, messageId \in MessageIds, type \in VoteTypes :
         db' = [ (IF chatId \in db.chat THEN Noted(db, {chatId}) ELSE db)
                   EXCEPT !.vote = VotesAfter(db, chatId, messageId, type) ]
    /\ cron_ran' = FALSE
    /\ UNCHANGED <<now, rounds, bets, resp, reqs, admin, drawer, wallet, page, timer>>

createStreamId ==
    /\ \E streamId \in StreamIds, chatId \in ChatIds :
         LET row == [ id |-> streamId, chat_id |-> chatId ]
         IN  IF ForeignKeyViolated(db, {row}) \/ PrimaryKeyTaken(db.stream, {row})
             THEN db' = db
             ELSE db' = [ Noted(db, {chatId}) EXCEPT !.stream = @ \cup {row} ]
    /\ cron_ran' = FALSE
    /\ UNCHANGED <<now, rounds, bets, resp, reqs, admin, drawer, wallet, page, timer>>

(* handleSupabaseError and what follows it in deleteChatById: where the     *)
(* call goes after a request that returned `error`.                         *)
AfterRequest(error, next) == IF error THEN "thrown" ELSE next

DeleteChatOutcome_ignores_error(error) == "returned"

(* handleSupabaseError(chatError, ...) and the return of the deleted chat *)
DeleteChatOutcome(error) == AfterRequest(error, "returned")

(* deleteChatById is called and deletes the messages of the chat; `failed`  *)
(* is a request the database could not serve.                               *)
DeleteMessages ==
    /\ db.del.pc \in {"idle", "returned", "thrown"}
    /\ \E id \in ChatIds, failed \in BOOLEAN :
         db' = [ db EXCEPT
                   !.message = IF failed THEN @ ELSE @ \ RowsOfChat(@, id),
                   !.del = [ pc |-> AfterRequest(failed, "votes"), id |-> id,
                             interleaved |-> FALSE ] ]
    /\ cron_ran' = FALSE
    /\ UNCHANGED <<now, rounds, bets, resp, reqs, admin, drawer, wallet, page, timer>>

DeleteVotes ==
    /\ db.del.pc = "votes"
    /\ \E failed \in BOOLEAN :
         db' = [ db EXCEPT
                   !.vote = IF failed THEN @ ELSE @ \ RowsOfChat(@, db.del.id),
                   !.del.pc = AfterRequest(failed, "streams") ]
    /\ cron_ran' = FALSE
    /\ UNCHANGED <<now, rounds, bets, resp, reqs, admin, drawer, wallet, page, timer>>

DeleteStreams ==
    /\ db.del.pc = "streams"
    /\ \E failed \in BOOLEAN :
         db' = [ db EXCEPT
                   !.stream = IF failed THEN @ ELSE @ \ RowsOfChat(@, db.del.id),
                   !.del.pc = AfterRequest(failed, "chat") ]
    /\ cron_ran' = FALSE
    /\ UNCHANGED <<now, rounds, bets, resp, reqs, admin, drawer, wallet, page, timer>>

(* Rows of any table still reference the chat. *)
Referenced(d, id) ==
    RowsOfChat(d.message, id) \cup RowsOfChat(d.vote, id)
        \cup RowsOfChat(d.stream, id) # {}

(* delete().eq('id', id).select().single(): the database refuses to delete  *)
(* a referenced chat, and single() is an error when no row was deleted.     *)
DeleteChatRow ==
    /\ db.del.pc = "chat"
    /\ \E failed \in BOOLEAN :
         LET error == failed \/ Referenced(db, db.del.id)
                          \/ db.del.id \notin db.chat
         IN  db' = [ db EXCEPT
                       !.chat = IF error THEN @ ELSE @ \ {db.del.id},
                       !.del.pc = DeleteChatOutcome(error) ]
    /\ cron_ran' = FALSE
    /\ UNCHANGED <<now, rounds, bets, resp, reqs, admin, drawer, wallet, page, timer>>

----------------------------------------------------------------------------
(* TimerDisplay.  Times are in milliseconds, as Date.getTime() gives them;  *)
(* timer.now is the browser's clock when timeLeft was last computed.  The   *)
(* quotients of the code are floating-point divisions followed by % and     *)
(* Math.floor; for a whole number of milliseconds they equal the integer    *)
(* quotients below.                                                         *)

MS_PER_SECOND == 1000
MS_PER_MINUTE == 60000
MS_PER_HOUR == 3600000
ROUND_MAXIMUM_MS == 86400000   \* MAX_ROUND_DURATION_SEC of the deployment

MaxIntervals == 3   \* runs of the interval callback after the mount

(* calculateTimeLeft of the effect, the clock reading t *)
calculateTimeLeft(endTime, t) ==
    LET difference == endTime - t
    IN  IF difference <= 0
        THEN [ hours |-> 0, minutes |-> 0, seconds |-> 0 ]
        ELSE [ hours   |-> (difference \div MS_PER_HOUR) % 24,
               minutes |-> (difference \div MS_PER_MINUTE) % 60,
               seconds |-> (difference \div MS_PER_SECOND) % 60 ]

(* The component after its effect ran for endTime at time t. *)
MountedTimer(endTime, t, intervals) ==
    [ endTime |-> endTime, now |-> t, intervals |-> intervals,
      timeLeft |-> calculateTimeLeft(endTime, t) ]

(* Deadlines a round can have, seen from a clock at 0, up to the maximum    *)
(* duration of a round.                                                     *)
EndTimes ==
    { 0, 1, 999, MS_PER_SECOND, MS_PER_MINUTE - 1, MS_PER_MINUTE,
      MS_PER_HOUR - 1, MS_PER_HOUR, ROUND_MAXIMUM_MS - 1, ROUND_MAXIMUM_MS }

(* Time between two runs of the interval callback: the second asked for,    *)
(* or more when the tab is throttled or was suspended.                      *)
Elapsed == { MS_PER_SECOND, MS_PER_SECOND + 1, MS_PER_MINUTE, MS_PER_HOUR,
             23 * MS_PER_HOUR }

InitTimer == MountedTimer(MS_PER_HOUR, 0, 0)

(* setInterval's callback: setTimeLeft(calculateTimeLeft()) *)
TimerInterval ==
    /\ timer.intervals < MaxIntervals
    /\ \E elapsed \in Elapsed :
         timer' = MountedTimer(timer.endTime, timer.now + elapsed,
                               timer.intervals + 1)
    /\ cron_ran' = FALSE
    /\ UNCHANGED <<now, rounds, bets, resp, reqs, admin, drawer, wallet, page, db>>

(* The round's current_deadline changed: the effect runs again for the new  *)
(* endTime.                                                                 *)
EndTimeChanged ==
    /\ \E endTime \in EndTimes :
         /\ endTime # timer.endTime
         /\ timer' = MountedTimer(endTime, timer.now, timer.intervals)
    /\ cron_ran' = FALSE
    /\ UNCHANGED <<now, rounds, bets, resp, reqs, admin, drawer, wallet, page, db>>

----------------------------------------------------------------------------

(* The reconnectSession() promise of the provider: whether it is pending,  *)
(* and the accounts of the session it was started with.                     *)
NoReconnect == [ pending |-> FALSE, accounts |-> <<>> ]

(* The page after it is loaded: both holders ran reconnectSession(), which  *)
(* resolves to the accounts of the browser's session.  The provider then    *)
(* attaches its 'disconnect' listener; the header attaches its own only if  *)
(* its instance already has a connector when the effect runs, which the     *)
(* library decides.  `available` is whether new PeraWalletConnect() did not *)
(* throw in the provider.                                                   *)
LoadedWallet(session, available, connector) ==
    [ session |-> session,
      header  |-> [ activeAddress |-> session,
                    listening |-> connector /\ session # <<>> ],
      context |-> [ peraWallet |-> available,
                    activeAddress |-> IF available THEN session ELSE <<>>,
                    isPeraConnecting |-> FALSE,
                    listening |-> available /\ session # <<>>,
                    reconnect |-> NoReconnect ] ]

InitWallet == LoadedWallet(<<>>, TRUE, FALSE)

(* The state the server rendered the page with (GET /state of a round     *)
(* without bets); `received` counts the Realtime events delivered.          *)
InitPageOf(env) ==
    [ gameState |-> [ round |-> RoundView(1, InitialRounds[1]),
                      recent_bets |-> <<>>,
                      total_bets_count |-> 0,
                      left_side_bets_amount |-> 0,
                      right_side_bets_amount |-> 0 ],
      isBetting |-> FALSE,
      received |-> 0,
      env |-> env,
      bet |-> IdleBet,
      chain |-> <<>>,
      backendCalls |-> <<>>,
      roundEvents |-> <<>>,
      betResponse |-> <<>>,
      recorded |-> {} ]

InitPage == InitPageOf(<<"TREASURY_ADDR">>)

(* The browser loads the page again: every component starts anew; what the *)
(* node and the backend received stays, and so does the count of calls.     *)
PageLoad ==
    /\ \E available \in BOOLEAN, connector \in BOOLEAN :
         wallet' = LoadedWallet(wallet.session, available, connector)
    /\ drawer' = [ InitDrawerOf(drawer.onPlaceBet) EXCEPT !.calls = drawer.calls ]
    /\ page' = [ InitPageOf(page.env) EXCEPT
                   !.chain = page.chain, !.backendCalls = page.backendCalls,
                   !.recorded = page.recorded ]
    /\ cron_ran' = FALSE
    /\ UNCHANGED <<db, timer>>
    /\ UNCHANGED <<now, rounds, bets, resp, reqs, admin>>

(* What a wallet handler of the provider did, as the caller observes it. *)
WalletLog(op, ok) ==
    [ op |-> op, status |-> IF ok THEN 200 ELSE 500, authorization |-> <<>> ]

(* The page is loaded and the provider's mount effect has started           *)
(* reconnectSession(), which has not settled yet.                           *)
ProviderMount ==
    /\ wallet' = [ LoadedWallet(wallet.session, TRUE, FALSE) EXCEPT
                     !.context.activeAddress = <<>>,
                     !.context.listening = FALSE,
                     !.context.reconnect =
                         [ pending |-> TRUE, accounts |-> wallet.session ] ]
    /\ drawer' = [ InitDrawerOf(drawer.onPlaceBet) EXCEPT !.calls = drawer.calls ]
    /\ page' = [ InitPageOf(page.env) EXCEPT
                   !.chain = page.chain, !.backendCalls = page.backendCalls,
                   !.recorded = page.recorded ]
    /\ resp' = WalletLog("mount", TRUE)
    /\ cron_ran' = FALSE
    /\ UNCHANGED <<db, timer>>
    /\ UNCHANGED <<now, rounds, bets, reqs, admin>>

(* reconnectSession() settles: with the accounts of the session it found    *)
(* when it started or of the session there is now, or rejected.             *)
ReconnectSettled ==
    /\ wallet.context.reconnect.pending
    /\ \E outcome \in { [ rejected |-> FALSE, accounts |-> a ] :
                          a \in { wallet.context.reconnect.accounts,
                                  wallet.session } }
                      \cup { [ rejected |-> TRUE, accounts |-> <<>> ] } :
         /\ wallet' = [ wallet EXCEPT
                !.context.reconnect = NoReconnect,
                !.context.activeAddress =
                    IF outcome.accounts = <<>> THEN @ ELSE outcome.accounts,
                !.context.listening =
                    IF outcome.accounts = <<>> THEN @ ELSE TRUE ]
         /\ resp' = WalletLog("reconnectSession", ~outcome.rejected)
    /\ cron_ran' = FALSE
    /\ UNCHANGED <<db, timer>>
    /\ UNCHANGED <<now, rounds, bets, reqs, admin, drawer, page>>

(* A click on the connect button of WalletConnectButton. *)
ConnectClicked ==
    /\ wallet.context.peraWallet
    /\ wallet.context.activeAddress = <<>>
    /\ ~wallet.context.isPeraConnecting
    /\ \E outcome \in ConnectOutcomes :
         /\ wallet' = PeraConnected(outcome)
         /\ resp' = WalletLog("handlePeraConnect", outcome.accounts # <<>>)
    /\ cron_ran' = FALSE
    /\ UNCHANGED <<db, timer>>
    /\ UNCHANGED <<now, rounds, bets, reqs, admin, drawer, page>>

(* A click on the disconnect button of WalletConnectButton. *)
DisconnectClicked ==
    /\ wallet.context.peraWallet
    /\ wallet.context.activeAddress # <<>>
    /\ \E threw \in BOOLEAN :
         /\ wallet' = PeraDisconnected(threw)
         /\ resp' = WalletLog("handlePeraDisconnect", ~threw)
    /\ cron_ran' = FALSE
    /\ UNCHANGED <<db, timer>>
    /\ UNCHANGED <<now, rounds, bets, reqs, admin, drawer, page>>

InitAdmin ==
    [ leftAvatarUrl |-> "", rightAvatarUrl |-> "", adminToken |-> "",
      initialMomentum |-> <<"5", "0">>, isLoading |-> FALSE,
      result |-> "none", pending |-> <<>> ]

InitServer ==
    /\ now = 0
    /\ rounds = <<>>
    /\ bets = <<>>
    /\ cron_ran = FALSE
    /\ resp = [ op |-> "none", status |-> 0, authorization |-> <<>> ]
    /\ reqs = [ p \in Clients |-> <<>> ]
    /\ db = InitDb

Init ==
    /\ InitServer
    /\ admin = InitAdmin
    /\ timer = InitTimer
    /\ drawer = InitDrawer
    /\ wallet = InitWallet
    /\ page = InitPage

(* A deployment with any setting of the treasury address. *)
InitBetting ==
    /\ InitServer
    /\ admin = InitAdmin
    /\ timer = InitTimer
    /\ drawer = InitDrawer
    /\ wallet = InitWallet
    /\ page \in { InitPageOf(env) : env \in TreasuryEnvs }

Next ==
    \/ AdminReset
    \/ PlaceBet
    \/ CronEndRound
    \/ Tick

Spec == Init /\ [][Next]_vars

(* The API with its responses observed, at one instant of the clock. *)
NextApi ==
    \/ AdminResetLogged
    \/ PlaceBetLogged
    \/ CronEndRound

SpecApi == Init /\ [][NextApi]_vars

(* Overlapping POST /admin/reset requests. *)
NextConc ==
    \/ ResetDeactivate
    \/ ResetCreate
    \/ PlaceBet
    \/ CronEndRound
    \/ Tick

SpecConc == Init /\ [][NextConc]_vars

(* The admin page in front of the API. *)
NextAdmin ==
    \/ AdminPageInput
    \/ AdminPageSubmit
    \/ AdminPageResponse
    \/ AdminResetDefault
    \/ PlaceBet
    \/ CronEndRound

SpecAdmin == Init /\ [][NextAdmin]_vars

(* The API with clients that send, and clients that leave out, the         *)
(* initial momentum.                                                       *)
NextWinner ==
    \/ AdminReset
    \/ AdminResetDefault
    \/ PlaceBet
    \/ CronEndRound
    \/ Tick

SpecWinner == Init /\ [][NextWinner]_vars

(* Bets of every size on one round. *)
NextImpact ==
    \/ AdminResetDefault
    \/ PlaceBetWide
    \/ CronEndRound

SpecImpact == Init /\ [][NextImpact]_vars

(* Rounds that end and are paid out. *)
NextPayout ==
    \/ AdminReset
    \/ PlaceBetPayable
    \/ CronEndRound
    \/ Tick
    \/ PayoutJob

SpecPayout == Init /\ [][NextPayout]_vars

(* The scheduler keeps running the job and time keeps advancing. *)
(* The bet form alone, with an onPlaceBet that resolves or rejects. *)
NextDrawer ==
    \/ DrawerSelectSide
    \/ handleSpellChange
    \/ handleAmountChange
    \/ DrawerSubmit
    \/ DrawerSettle

SpecDrawer == Init /\ [][NextDrawer]_vars

(* The two holders of the wallet connection, and the bet form that sends   *)
(* the provider's activeAddress as wallet_address.                          *)
NextWallet ==
    \/ connectWallet
    \/ disconnectWallet
    \/ handlePeraConnect
    \/ handlePeraDisconnect
    \/ WalletDisconnects
    \/ PageLoad
    \/ NextDrawer

SpecWallet == Init /\ [][NextWallet]_vars

(* The betting interface receiving Realtime events; the page may reload. *)
NextRealtime ==
    \/ BetInserted
    \/ PageLoad

SpecRealtime == Init /\ [][NextRealtime]_vars

(* The betting interface: the wallet of the provider, the bet form and      *)
(* handleActualPlaceBet.                                                    *)
NextBetting ==
    \/ handlePeraConnect
    \/ PageLoad
    \/ DrawerSelectSide
    \/ handleSpellChange
    \/ PlaceBetClick
    \/ ParamsReturned
    \/ TransactionSigned
    \/ TransactionSubmitted
    \/ BackendResponded

SpecBetting == InitBetting /\ [][NextBetting]_vars

(* The bet form mounted with or without an onPlaceBet. *)
InitDrawerProps ==
    /\ InitServer
    /\ admin = InitAdmin
    /\ timer = InitTimer
    /\ drawer \in { InitDrawerOf(onPlaceBet) : onPlaceBet \in BOOLEAN }
    /\ wallet = InitWallet
    /\ page = InitPage

SpecDrawerProps == InitDrawerProps /\ [][NextDrawer]_vars

(* A promise that is awaited settles. *)
LiveDrawerProps == SpecDrawerProps /\ WF_vars(DrawerSettle)

(* The bet form with clicks that may arrive before the next render. *)
NextDrawerRender ==
    \/ DrawerSelectSide
    \/ handleSpellChange
    \/ handleAmountChange
    \/ DrawerClick
    \/ DrawerRender
    \/ DrawerSettle

SpecDrawerRender == Init /\ [][NextDrawerRender]_vars

(* The betting interface on a page that stays loaded. *)
NextBetFlow ==
    \/ handlePeraConnect
    \/ DrawerSelectSide
    \/ handleSpellChange
    \/ PlaceBetClick
    \/ ParamsReturned
    \/ TransactionSigned
    \/ TransactionSubmitted
    \/ BackendResponded

SpecBetFlow == InitBetting /\ [][NextBetFlow]_vars

(* Every asynchronous call of handleActualPlaceBet settles. *)
LiveBetFlow ==
    /\ SpecBetFlow
    /\ WF_vars(ParamsReturned)
    /\ WF_vars(TransactionSigned)
    /\ WF_vars(TransactionSubmitted)
    /\ WF_vars(BackendResponded)

(* A page loaded with a wallet session, the round it shows in the database. *)
InitSync ==
    /\ now = 0
    /\ rounds = InitialRounds
    /\ bets = <<>>
    /\ cron_ran = FALSE
    /\ resp = [ op |-> "none", status |-> 0, authorization |-> <<>> ]
    /\ reqs = [ p \in Clients |-> <<>> ]
    /\ db = InitDb
    /\ admin = InitAdmin
    /\ timer = InitTimer
    /\ drawer = InitDrawer
    /\ wallet = LoadedWallet(<<"ADDR_A">>, TRUE, FALSE)
    /\ page = InitPage

(* The page's bet and other players' bets on the round, with the round's    *)
(* UPDATE events and the response of POST /bet delivered at any later time. *)
NextSync ==
    \/ DrawerSelectSide
    \/ handleSpellChange
    \/ PlaceBetClick
    \/ ParamsReturned
    \/ TransactionSigned
    \/ TransactionSubmitted
    \/ BackendProcessesBet
    \/ OtherBetProcessed
    \/ RoundUpdated
    \/ BetResponseArrived

SpecSync == InitSync /\ [][NextSync]_vars

(* TimerDisplay with its interval and a deadline that changes. *)
NextTimer ==
    \/ TimerInterval
    \/ EndTimeChanged

SpecTimer == Init /\ [][NextTimer]_vars

(* Calls of the chat's queries, their requests interleaved. *)
NextChatDb ==
    \/ saveMessages
    \/ voteMessage
    \/ createStreamId
    \/ DeleteMessages
    \/ DeleteVotes
    \/ DeleteStreams
    \/ DeleteChatRow

SpecChatDb == Init /\ [][NextChatDb]_vars

(* The provider of the wallet state with its buttons, its mount effect and *)
(* the wallet ending the session.                                           *)
NextProvider ==
    \/ ProviderMount
    \/ ReconnectSettled
    \/ ConnectClicked
    \/ DisconnectClicked
    \/ WalletDisconnects
    \/ DrawerSelectSide
    \/ handleSpellChange

SpecProvider == Init /\ [][NextProvider]_vars

LiveSpec == Spec /\ WF_vars(Tick) /\ WF_vars(CronEndRound)

----------------------------------------------------------------------------
(* Properties *)

ImpactSamples == {0, 1, 180, 1000}
RawMomenta == {0 - 5, 37, 150}

Clamped(x, lo, hi) == IF x < lo THEN lo ELSE IF x > hi THEN hi ELSE x

(* The step stored a bet: the bet, and its round before and after. *)
BetStored == Len(bets') = Len(bets) + 1
StoredBet == bets'[Len(bets')]

(* C1: in every reachable state every round's momentum is within 0..100;   *)
(* update_momentum subtracts the impact for a left bet, adds it for a      *)
(* right bet and clamps the result to 0..100; the momentum bar shows a     *)
(* value clamped to the same range.                                        *)
C1_MomentumWithinRange ==
    /\ \A r \in DOMAIN rounds :
         /\ rounds[r].momentum \in 0..100
         /\ MomentumBar(rounds[r].momentum).rightPercent = rounds[r].momentum
    /\ \A r \in ActiveRoundIds, impact \in ImpactSamples :
         LET x == rounds[r].momentum * SCALE
         IN  /\ update_momentum(x, impact, "left")
                  = Clamped(x - impact, 0, 100 * SCALE)
             /\ update_momentum(x, impact, "right")
                  = Clamped(x + impact, 0, 100 * SCALE)
    /\ \A raw \in RawMomenta :
         /\ MomentumBar(raw).rightPercent = Clamped(raw, 0, 100)
         /\ MomentumBar(raw).leftPercent = 100 - Clamped(raw, 0, 100)

(* A left bet of the largest impact on a round started at 5 was clamped to 0. *)
C1_Witness ==
    \E r \in DOMAIN rounds :
        /\ rounds[r].momentum = 0
        /\ \E b \in BetsOfRound(r) :
             bets[b].side = "left" /\ bets[b].impact = MAX_IMPACT * SCALE

(* C2: each run of cron_end_round marks the active round as ended          *)
(* (active = false, ended_at and winner set) if and only if at that moment *)
(* its momentum is 0 or 100, or now >= current_deadline, or now >=         *)
(* max_deadline; when none of the three holds, or when there is no active  *)
(* round, the run changes nothing.                                         *)
C2_CronEndsRoundIffDue ==
    [][ cron_ran' =>
          /\ now' = now /\ bets' = bets
          /\ IF ActiveRoundIds = {}
             THEN rounds' = rounds
             ELSE \A r \in ActiveRoundIds :
                    LET round == rounds[r]
                        due == \/ round.momentum = 0
                               \/ round.momentum = 100
                               \/ now >= round.current_deadline
                               \/ now >= round.max_deadline
                    IN  IF due
                        THEN /\ ~rounds'[r].active
                             /\ rounds'[r].ended_at = <<now>>
                             /\ rounds'[r].winner \in {"left", "right", "draw"}
                             /\ \A q \in DOMAIN rounds \ {r} :
                                    rounds'[q] = rounds[q]
                        ELSE rounds' = rounds ]_vars

(* A round ended by the inactivity timeout alone. *)
C2_Witness ==
    \E r \in DOMAIN rounds :
        /\ ~rounds[r].active
        /\ rounds[r].ended_at # <<>>
        /\ rounds[r].ended_at[1] >= rounds[r].current_deadline
        /\ rounds[r].ended_at[1] < rounds[r].max_deadline
        /\ rounds[r].momentum \notin {0, 100}
        /\ rounds[r].winner # "none"

(* C3: with time advancing and cron_end_round kept running, every round    *)
(* that becomes active eventually stops being active, and a run of         *)
(* cron_end_round at or after the max deadline of the active round marks   *)
(* it ended, however many bets extended its timer.                         *)
C3_ActiveRoundEventuallyEnds ==
    /\ [][ cron_ran' =>
             \A r \in ActiveRoundIds :
                 now >= rounds[r].max_deadline =>
                     ~rounds'[r].active /\ rounds'[r].ended_at = <<now>> ]_vars
    /\ \A r \in 1..MaxRounds :
         (r \in DOMAIN rounds /\ rounds[r].active)
             ~> (r \in DOMAIN rounds /\ ~rounds[r].active)

(* A round whose timer two bets extended, ended at its max deadline. *)
C3_Witness ==
    \E r \in DOMAIN rounds :
        /\ ~rounds[r].active
        /\ rounds[r].ended_at = << rounds[r].max_deadline >>
        /\ Cardinality(BetsOfRound(r)) = 2

(* C4: for every round in every reachable state current_deadline <=        *)
(* max_deadline; a new round has current_deadline = start + inactivity     *)
(* timeout and max_deadline = start + maximum duration.                    *)
C4_DeadlineWithinMax ==
    \A r \in DOMAIN rounds :
        /\ rounds[r].current_deadline <= rounds[r].max_deadline
        /\ rounds[r].max_deadline = rounds[r].start_time + MAX_ROUND_DURATION_SEC
        /\ BetsOfRound(r) = {} =>
              rounds[r].current_deadline
                  = rounds[r].start_time + ROUND_INACTIVITY_TIMEOUT_SEC

(* A round whose second bet was capped at the max deadline. *)
C4_Witness ==
    \E r \in DOMAIN rounds :
        /\ Cardinality(BetsOfRound(r)) = 2
        /\ rounds[r].current_deadline = rounds[r].max_deadline
        /\ rounds[r].start_time + ROUND_INACTIVITY_TIMEOUT_SEC
               + 2 * BET_TIME_EXTENSION_SEC > rounds[r].max_deadline

C6_AtMostOneActiveRound == Cardinality(ActiveRoundIds) <= 1

C8_BetMovesMomentumToItsSide ==
    /\ \A m \in 0..100, impact \in ImpactSamples :
          /\ update_momentum(m * SCALE, impact, "left") <= m * SCALE
          /\ update_momentum(m * SCALE, impact, "right") >= m * SCALE
    /\ [][ BetStored =>
             LET r == StoredBet.round_id
             IN  /\ StoredBet.side = "left" =>
                       rounds'[r].momentum <= rounds[r].momentum
                 /\ StoredBet.side = "right" =>
                       rounds'[r].momentum >= rounds[r].momentum ]_vars

(* One left bet took a round started at 5 down, short of the edge. *)
C8_Witness ==
    \E r \in DOMAIN rounds :
        /\ rounds[r].momentum \in 1..4
        /\ Cardinality(BetsOfRound(r)) = 1
        /\ \A b \in BetsOfRound(r) : bets[b].side = "left"

C10_AdminPageStartsRoundAsEntered ==
    [][ ( /\ admin.pending # <<>>
          /\ admin'.pending = <<>>
          /\ admin.adminToken = ADMIN_TOKEN
          /\ admin.leftAvatarUrl # ""
          /\ admin.rightAvatarUrl # "" ) =>
          LET m == ParseInt(admin.initialMomentum)
          IN  /\ m # <<>>
              /\ admin'.result = "success"
              /\ \E r \in DOMAIN rounds' :
                    /\ rounds'[r].active
                    /\ rounds'[r].momentum = m[1]
                    /\ rounds'[r].pot_amount = 0
                    /\ rounds'[r].left_avatar_url = admin.leftAvatarUrl
                    /\ rounds'[r].right_avatar_url = admin.rightAvatarUrl ]_vars

AmountSamples == {0, 1, 10, 1000, 1000000, 1000000000}

C13_InvalidBetRejected ==
    [][ ( /\ resp'.op = "bet"
          /\ ~cron_ran'
          /\ \/ resp'.request.side \notin {"left", "right"}
             \/ resp'.request.prompt_chars > 70 ) =>
          /\ resp'.status = 422
          /\ resp'.message # ""
          /\ bets' = bets
          /\ rounds' = rounds ]_vars

(* A bet with a 71-character prompt was rejected on a round that is active *)
(* and already holds a bet.                                                *)
C13_Witness ==
    /\ resp.op = "bet"
    /\ ~cron_ran
    /\ resp.status = 422
    /\ resp.request.side = "left"
    /\ resp.request.prompt_chars = 71
    /\ resp.request.round_id \in ActiveRoundIds
    /\ BetsOfRound(resp.request.round_id) # {}

RECURSIVE SumPayouts(_, _)
SumPayouts(f, S) ==
    IF S = {} THEN 0
    ELSE LET i == CHOOSE j \in S : TRUE
         IN  f[i] + SumPayouts(f, S \ {i})

WordStarts(text) ==
    Cardinality({ i \in 1..Len(text) :
                    ~IsSpace(text[i]) /\ (i = 1 \/ IsSpace(text[i - 1])) })

(* The text without its blanks at both ends, by positions. *)
Trimmed(text) ==
    LET inked == { i \in 1..Len(text) : ~IsSpace(text[i]) }
    IN  IF inked = {} THEN <<>>
        ELSE SubSeq(text, CHOOSE i \in inked : \A j \in inked : i <= j,
                          CHOOSE i \in inked : \A j \in inked : i >= j)

(* The form is one that may be sent: a side is selected, the trimmed spell  *)
(* has between one and ten words, the amount is a number >= minimumBet.     *)
DrawerSendable ==
    /\ drawer.selectedSide \in Sides
    /\ WordStarts(drawer.spellText) \in 1..MAX_SPELL_WORDS
    /\ ParseFloat(drawer.betAmount) # <<>>
    /\ ParseFloat(drawer.betAmount)[1] >= minimumBet

(* The two messages with which handleSubmit rejects a submit. *)
ValidationErrors ==
    { Feedback("error", "Amount must be at least 0.1."),
      Feedback("error", "Spell exceeds 10 words.") }

(* C15: BetDrawer calls onPlaceBet only when a side is selected, the        *)
(* trimmed spell is non-empty and has at most 10 whitespace-separated       *)
(* words, and the amount parses to a number >= minimumBet, and it passes    *)
(* that side, trimmed spell and amount; a submit these checks reject leaves *)
(* isSubmitting false and calls nothing.                                    *)
C15_SubmitSendsOnlyValidBets ==
    [][ /\ drawer'.calls # drawer.calls =>
            /\ DrawerSendable
            /\ drawer'.calls = drawer.calls + 1
            /\ drawer'.pending # <<>>
            /\ drawer'.pending[1].side = drawer.selectedSide
            /\ drawer'.pending[1].spell = Trimmed(drawer.spellText)
            /\ drawer'.pending[1].amount = ParseFloat(drawer.betAmount)
        /\ ( /\ drawer'.feedbackMessage # drawer.feedbackMessage
             /\ drawer'.feedbackMessage \in ValidationErrors ) =>
            /\ ~DrawerSendable
            /\ drawer'.calls = drawer.calls
            /\ drawer'.pending = <<>>
            /\ ~drawer'.isSubmitting ]_vars

(* A valid bet reached onPlaceBet, and a click with an amount that is not a *)
(* number was rejected with the amount message.                             *)
C15_Witness ==
    /\ drawer.calls = 1
    /\ drawer.pending # <<>>
    /\ drawer.pending[1].spell = Spell(MAX_SPELL_WORDS)
    /\ drawer.isSubmitting

C15_WitnessRejected ==
    /\ drawer.betAmount = <<".">>
    /\ drawer.feedbackMessage = Feedback("error", "Amount must be at least 0.1.")
    /\ ~drawer.isSubmitting
    /\ drawer.calls = 0

(* C16: the address the header wallet button shows and the activeAddress    *)
(* the betting interface places bets with are the same, both null or both   *)
(* the same address, after any connect, disconnect and wallet disconnect.   *)
C16_WalletStateShared ==
    wallet.header.activeAddress = wallet.context.activeAddress

RecentBets == page.gameState.recent_bets

(* C17: after any sequence of realtime bet INSERT events recent_bets holds *)
(* at most 10 bets, the most recently received first; each event puts the   *)
(* new bet at the head and drops everything beyond the 10th entry.          *)
C17_RecentBetsNewestFirst ==
    /\ [] /\ Len(RecentBets) <= 10
          /\ Len(RecentBets) = Min(page.received, 10)
          /\ \A i \in 1..Len(RecentBets) :
               RecentBets[i].id = page.received - (i - 1)
    /\ [][ page'.received = page.received + 1 =>
             /\ RecentBets' # <<>>
             /\ RecentBets'[1].id = page'.received
             /\ \A i \in 2..Len(RecentBets') : RecentBets'[i] = RecentBets[i - 1]
             /\ \A i \in 1..Len(RecentBets) :
                  (i + 1 <= 10) <=> (i + 1 <= Len(RecentBets')) ]_vars

(* An eleventh bet arrived: it heads the list and the first one is gone. *)
C17_Witness ==
    /\ page.received = 11
    /\ Len(RecentBets) = 10
    /\ RecentBets[1].id = 11
    /\ RecentBets[10].id = 2

RECURSIVE ReturnedTxIds(_)
(* The transaction ids the node returned, in order. *)
ReturnedTxIds(chain) ==
    IF chain = <<>> THEN <<>>
    ELSE (IF Head(chain).txid = <<>> THEN <<>> ELSE Head(chain).txid)
         \o ReturnedTxIds(Tail(chain))

(* C18: handleActualPlaceBet calls POST /bet only after the payment was     *)
(* signed, submitted and a transaction id was returned, and passes that id  *)
(* as tx_id; when signing or submission fails, or no id is returned, the    *)
(* backend is not called.                                                   *)
C18_BackendCalledAfterPayment ==
    /\ [] /\ Len(page.backendCalls) = Len(ReturnedTxIds(page.chain))
          /\ \A i \in 1..Len(page.backendCalls) :
               page.backendCalls[i].tx_id = ReturnedTxIds(page.chain)[i]
    /\ [][ /\ page'.backendCalls # page.backendCalls =>
               /\ page.bet.stage = "submit"
               /\ Len(page'.chain) = Len(page.chain) + 1
               /\ page'.chain[Len(page'.chain)].txid # <<>>
               /\ page'.backendCalls = Append(page.backendCalls,
                      [ round_id |-> page.bet.round_id,
                        side |-> page.bet.data.side,
                        amount |-> page.bet.data.amount,
                        spell |-> page.bet.data.spell,
                        wallet_address |-> page.bet.activeAddress,
                        tx_id |-> page'.chain[Len(page'.chain)].txid[1] ])
           /\ page'.chain # page.chain => page.bet.stage = "submit"
           /\ (page.bet.stage \in {"params", "sign", "submit"}
                 /\ page'.bet.stage = "idle") =>
               page'.backendCalls = page.backendCalls ]_vars

(* A first payment came back without an id and the backend was not called;  *)
(* a second one came back as TX2 and was passed on.                         *)
C18_Witness ==
    /\ Len(page.chain) = 2
    /\ page.chain[1].txid = <<>>
    /\ Len(page.backendCalls) = 1
    /\ page.backendCalls[1].tx_id = "TX2"
    /\ page.bet.stage = "backend"

(* No wallet is connected, or the treasury address is unset or still the    *)
(* placeholder.                                                             *)
BetImpossible ==
    \/ wallet.context.activeAddress = <<>>
    \/ ~wallet.context.peraWallet
    \/ page.env \in { <<>>, <<"">>, << PLACEHOLDER >> }

(* C19: with no wallet connected (activeAddress or the peraWallet instance  *)
(* null) or the treasury address unset or the placeholder,                  *)
(* handleActualPlaceBet throws before any effect: nothing is built, signed  *)
(* or submitted, the backend is not called, isBetting and gameState stay.   *)
C19_PlaceBetThrowsBeforeEffects ==
    [][ (drawer'.calls # drawer.calls /\ BetImpossible) =>
            /\ page'.bet = IdleBet
            /\ page'.chain = page.chain
            /\ page'.backendCalls = page.backendCalls
            /\ page'.isBetting = page.isBetting
            /\ ~page'.isBetting
            /\ page'.gameState = page.gameState
            /\ drawer'.settled = "rejected"
            /\ drawer'.feedbackMessage \in
                 { Feedback("error", "Wallet not connected."),
                   Feedback("error", "Game treasury address is not configured.") }
      ]_vars

(* A bet was refused for the placeholder treasury although a wallet was     *)
(* connected.                                                               *)
C19_Witness ==
    /\ drawer.calls = 1
    /\ drawer.settled = "rejected"
    /\ drawer.feedbackMessage =
           Feedback("error", "Game treasury address is not configured.")
    /\ wallet.context.activeAddress # <<>>
    /\ page.env = << PLACEHOLDER >>
    /\ page.chain = <<>>

(* A bet was refused because no wallet was connected. *)
C19_WitnessNoWallet ==
    /\ drawer.calls = 1
    /\ drawer.feedbackMessage = Feedback("error", "Wallet not connected.")
    /\ page.env = <<"TREASURY_ADDR">>

SuccessFeedback == Feedback("success", "Bet placed successfully!")

(* C20: every submission that passes validation ends with isSubmitting      *)
(* false and a feedback message set; the message is 'Bet placed             *)
(* successfully!' only when onPlaceBet was invoked and resolved, and an     *)
(* error message when it rejected.                                          *)
C20_SubmissionEndsWithFeedback ==
    /\ drawer.isSubmitting ~>
           (~drawer.isSubmitting /\ drawer.feedbackMessage # <<>>)
    /\ [][ (drawer.isSubmitting /\ ~drawer'.isSubmitting) =>
             /\ drawer'.feedbackMessage # <<>>
             /\ drawer'.feedbackMessage = SuccessFeedback =>
                  /\ drawer.pending # <<>>
                  /\ drawer'.settled = "resolved"
             /\ drawer'.settled = "rejected" =>
                  drawer'.feedbackMessage[1].type = "error" ]_vars

(* C21: at most one bet submission is in flight per BetDrawer: while the   *)
(* onPlaceBet call of one submit is pending, further submit clicks, also a  *)
(* click that arrives before the component renders again, do not invoke     *)
(* onPlaceBet again.                                                        *)
C21_OneSubmissionInFlight ==
    [][ drawer'.calls # drawer.calls => drawer.pending = <<>> ]_vars

(* C22: after handlePeraDisconnect returns with a wallet instance present, *)
(* activeAddress is null, whether peraWallet.disconnect() succeeded or      *)
(* threw.                                                                   *)
C22_DisconnectClearsAddress ==
    [][ (resp'.op = "handlePeraDisconnect" /\ resp' # resp) =>
            /\ wallet.context.peraWallet
            /\ wallet.context.activeAddress # <<>>
            /\ wallet'.context.activeAddress = <<>> ]_vars

(* disconnect() threw: the session is still there, the address is null. *)
C22_Witness ==
    /\ resp.op = "handlePeraDisconnect"
    /\ resp.status = 500
    /\ wallet.session # <<>>
    /\ wallet.context.activeAddress = <<>>

(* C23: once the user has disconnected, activeAddress stays null until a   *)
(* later handlePeraConnect succeeds; a reconnectSession promise started at  *)
(* mount that settles after the disconnect does not set an address again.   *)
C23_AddressStaysNullAfterDisconnect ==
    [][ (resp.op = "handlePeraDisconnect"
            /\ wallet.context.activeAddress = <<>>
            /\ wallet'.context.activeAddress # <<>>) =>
            (resp'.op = "handlePeraConnect" /\ resp'.status = 200) ]_vars

(* C24: the round state shown never goes back to an older version: once    *)
(* the realtime UPDATEs and the response of the bet API call have arrived,  *)
(* in either order, momentum, pot and deadline in gameState are those of    *)
(* the latest database state of the round.                                  *)
C24_RoundShownIsLatest ==
    (/\ page.roundEvents = <<>>
     /\ page.betResponse = <<>>
     /\ page.bet.stage = "idle")
        => page.gameState.round =
               RoundView(page.gameState.round.id, rounds[page.gameState.round.id])

(* The node accepted a payment of the page with this transaction id. *)
PaymentSubmitted(id) ==
    \E i \in DOMAIN page.chain : page.chain[i].txid = << id >>

(* C25: a payment is never taken without a bet: whenever                    *)
(* handleActualPlaceBet has submitted the payment transaction, the bet is   *)
(* eventually recorded by the backend (POST /bet succeeds for that tx_id),  *)
(* even if the first POST /bet call fails.                                  *)
C25_PaymentLeadsToRecordedBet ==
    \A id \in TxIds : PaymentSubmitted(id) ~> (id \in page.recorded)

(* What of a round is settled when it ends. *)
Outcome(round) ==
    [ active |-> round.active, momentum |-> round.momentum,
      pot_amount |-> round.pot_amount,
      current_deadline |-> round.current_deadline, winner |-> round.winner ]

Ended(round) == ~round.active /\ round.winner # "none"

(* C26: once a round has ended (active = false, winner set) it never       *)
(* becomes active again and its momentum, pot, current_deadline and winner  *)
(* never change: a bet that arrives after the end, or after                 *)
(* current_deadline has passed but before the next cron run, is not applied *)
(* to that round.                                                           *)
C26_EndedRoundIsFinal ==
    [][ \A r \in DOMAIN rounds :
          /\ Ended(rounds[r]) => Outcome(rounds'[r]) = Outcome(rounds[r])
          /\ (bets' # bets /\ now >= rounds[r].current_deadline) =>
                 rounds'[r] = rounds[r] ]_vars

VotesFor(votes, chatId, messageId) ==
    { v \in votes : v.chat_id = chatId /\ v.message_id = messageId }

(* C28: voteMessage is an upsert keyed by (chat_id, message_id): after any *)
(* sequence of votes there is at most one vote row per message of a chat,   *)
(* its is_upvoted equals the type of the last vote ('up' = true), and       *)
(* repeating the same vote leaves the stored votes unchanged.               *)
C28_VoteIsUpsert ==
    /\ \A a \in db.vote, b \in db.vote : SameVote(a, b) => a = b
    /\ \A chatId \in db.chat, messageId \in MessageIds, type \in VoteTypes :
         LET voted == VotesAfter(db, chatId, messageId, type)
             again == VotesAfter([ db EXCEPT !.vote = voted ],
                                 chatId, messageId, type)
         IN  /\ VotesFor(voted, chatId, messageId) =
                    { [ chat_id |-> chatId, message_id |-> messageId,
                        is_upvoted |-> (type = "up") ] }
             /\ voted \ VotesFor(voted, chatId, messageId) =
                    db.vote \ VotesFor(db.vote, chatId, messageId)
             /\ again = voted

(* Votes were stored for two messages of a chat, one down and one up. *)
C28_Witness ==
    /\ [ chat_id |-> "c1", message_id |-> "m1", is_upvoted |-> FALSE ] \in db.vote
    /\ [ chat_id |-> "c1", message_id |-> "m2", is_upvoted |-> TRUE ] \in db.vote

(* C29: the time left shown by TimerDisplay is never negative: it is       *)
(* 00:00:00 whenever now >= endTime, and otherwise hours is within 0..23,   *)
(* minutes and seconds within 0..59 and together they equal the whole       *)
(* seconds remaining, for every remaining time up to the 24-hour round      *)
(* maximum.                                                                 *)
C29_TimeLeftIsRemainingTime ==
    LET difference == timer.endTime - timer.now
        timeLeft == timer.timeLeft
    IN  /\ timeLeft.hours >= 0 /\ timeLeft.minutes >= 0 /\ timeLeft.seconds >= 0
        /\ difference <= 0 =>
               timeLeft = [ hours |-> 0, minutes |-> 0, seconds |-> 0 ]
        /\ (difference > 0 /\ difference <= ROUND_MAXIMUM_MS) =>
               /\ timeLeft.hours \in 0..23
               /\ timeLeft.minutes \in 0..59
               /\ timeLeft.seconds \in 0..59
               /\ timeLeft.hours * 3600 + timeLeft.minutes * 60 + timeLeft.seconds
                      = difference \div MS_PER_SECOND

(* The momentum the form holds, as handleSubmit reads it, is an integer     *)
(* within 0..100.                                                           *)
MomentumEntered(text) ==
    ParseInt(text) # <<>> /\ ParseInt(text)[1] >= 0 /\ ParseInt(text)[1] <= 100

(* A step of handleSubmit that begins a submission: the fields of the form  *)
(* stay, the rest of the page's state changes.                              *)
SubmitStep ==
    /\ ~admin.isLoading
    /\ admin' # admin
    /\ admin'.initialMomentum = admin.initialMomentum
    /\ admin'.adminToken = admin.adminToken
    /\ admin'.leftAvatarUrl = admin.leftAvatarUrl
    /\ admin'.rightAvatarUrl = admin.rightAvatarUrl

(* C30: the admin page never calls the start-round API with an initial     *)
(* momentum that is not an integer in 0..100: for such input handleSubmit   *)
(* sets a failure result, ends with isLoading = false and sends no request; *)
(* and after every submit, accepted or failed, isLoading is false again.    *)
C30_AdminPageRejectsBadMomentum ==
    /\ [] (admin.pending = <<>> => ~admin.isLoading)
    /\ [][ (admin'.pending # <<>> /\ admin'.pending # admin.pending) =>
              /\ MomentumEntered(admin.initialMomentum)
              /\ admin'.pending[1].body.initial_momentum \in 0..100 ]_vars
    /\ [][ (SubmitStep /\ ~MomentumEntered(admin.initialMomentum)) =>
              /\ admin'.result = "invalid"
              /\ ~admin'.isLoading
              /\ admin'.pending = <<>> ]_vars

(* A submission of 101 was refused. *)
C30_Witness ==
    /\ admin.initialMomentum = <<"1", "0", "1">>
    /\ admin.result = "invalid"
    /\ ~admin.isLoading
    /\ admin.pending = <<>>

(* A submission was accepted, answered, and the page is idle again. *)
C30_WitnessAccepted ==
    /\ admin.result \in {"success", "failure"}
    /\ ~admin.isLoading
    /\ admin.pending = <<>>

====
